---- MODULE Spec2Model ----
(***************************************************************************)
(* A model of the geometric core of pareto-approximator: Point,            *)
(* Hyperplane, NonDominatedSet, Facet and the approximation driver.        *)
(*                                                                         *)
(* Arithmetic.  The program computes with IEEE doubles.  The model         *)
(* computes with exact rationals <<n, d>> (d > 0, reduced), extended with  *)
(* the IEEE special value NaN == <<0, 0>> so that 0.0 / 0.0 and every      *)
(* comparison with NaN behave as in the program.  Rounding is not          *)
(* modelled.                                                               *)
(***************************************************************************)
EXTENDS Integers, Sequences, FiniteSets, TLC

VARIABLES
    facet,        \* the Facet<S> object under construction/use, or NoFacet
    facetErr,     \* exception thrown by the last Facet operation, or "none"
    facetOp,      \* name of the last Facet operation
    facetIn,      \* the arguments the constructor was called with
    facetRet,     \* argument and return value of the last ratioDistance call
    nds,          \* NonDominatedSet<Point>::contents_
    ndsLog,       \* history of insert calls: <<[arg, ret], ...>>
    feasible,     \* the problem: its finite set of feasible points
    eps,          \* the tolerance given to computeApproximateParetoSet
    pc,           \* position of the driver: "seed", "loop" or "done"
    approx,       \* the driver's NonDominatedSet of accepted points
    queue,        \* the priority queue: entries [facet, stamp]
    finalized,    \* the facets finalized ("boundary bucket")
    stamp,        \* number of facets that have entered the queue
    iter,         \* refinement steps taken (at most MaxIter)
    lastPopped,   \* the queue entry popped by the last refinement step
    hs,           \* the Hyperplane objects constructed so far, in order
    hOp,          \* name of the last Hyperplane operation called
    hRet,         \* its point argument, exception and return value
    pointCall,    \* the last Point method call: receiver, arguments, result
    graph,        \* the graph AStarDijkstra runs on: nodes, edges, weights
    timestamp,    \* *timestamp_, the algorithm's timestamp
    node,         \* the attributes of every graph node
    openNodesQueue, \* the nodes in the priority queue of the running query
    astarPc,      \* position of runQuery: "idle", "loop" or "returned"
    query         \* the running or last query: source, target, result

vars == <<facet, facetErr, facetOp, facetIn, facetRet, nds, ndsLog, feasible, eps, pc, approx,
          queue, finalized, stamp, iter, lastPopped, hs, hOp, hRet, pointCall,
          graph, timestamp, node, openNodesQueue, astarPc, query>>

(***************************************************************************)
(* Bounds of the model.                                                    *)
(***************************************************************************)
MaxCoord == 2
NumPoints3 == 4
MaxInserts == 4
NumFeasiblePoints == 10
MaxFeasible == 4
MaxIter == 8
NumNdsPoints == 9
NumHyperplanes == 12
MaxHyperplanes == 3
NumCtorPoints == 8
NumRangePoints == 5
NumPointInputs == 10
NumGraphs == 3
NumQueries == 6
MaxQueries == 2

(***************************************************************************)
(* Exact rational arithmetic with NaN.                                     *)
(***************************************************************************)
\* A function with domain 1..n as a sequence value (the same function).
Tuple(f) == f \o <<>>

Abs(x) == IF x < 0 THEN -x ELSE x

RECURSIVE Gcd(_, _)
Gcd(a, b) == IF b = 0 THEN a ELSE Gcd(b, a % b)

NaN == <<0, 0>>

IsNaN(r) == r[2] = 0

Rat(n, d) ==
    IF d = 0 THEN NaN
    ELSE LET g == Gcd(Abs(n), Abs(d))
             s == IF d < 0 THEN -1 ELSE 1
         IN  <<(s * n) \div g, (s * d) \div g>>

R(i) == <<i, 1>>

RAdd(a, b) == IF IsNaN(a) \/ IsNaN(b) THEN NaN
              ELSE Rat(a[1] * b[2] + b[1] * a[2], a[2] * b[2])

RNeg(a) == IF IsNaN(a) THEN NaN ELSE <<-a[1], a[2]>>

RSub(a, b) == RAdd(a, RNeg(b))

RMul(a, b) == IF IsNaN(a) \/ IsNaN(b) THEN NaN
              ELSE Rat(a[1] * b[1], a[2] * b[2])

\* a / b for b # 0, and 0.0 / 0.0 = NaN.  (x / 0.0 with x # 0 is an
\* infinity; no modelled operation divides a non-zero value by zero.)
RDiv(a, b) == IF IsNaN(a) \/ IsNaN(b) \/ b[1] = 0 THEN NaN
              ELSE Rat(a[1] * b[2], a[2] * b[1])

\* IEEE comparisons: every comparison with a NaN operand is false.
REq(a, b) == ~IsNaN(a) /\ ~IsNaN(b) /\ a = b
RLt(a, b) == ~IsNaN(a) /\ ~IsNaN(b) /\ a[1] * b[2] < b[1] * a[2]
RGt(a, b) == RLt(b, a)
RLe(a, b) == ~IsNaN(a) /\ ~IsNaN(b) /\ a[1] * b[2] <= b[1] * a[2]

\* std::max(a, b) == (a < b) ? b : a
StdMax(a, b) == IF RLt(a, b) THEN b ELSE a

(***************************************************************************)
(* Vectors and matrices of rationals.                                      *)
(***************************************************************************)
RECURSIVE SumSeq(_)
SumSeq(s) == IF s = <<>> THEN R(0) ELSE RAdd(Head(s), SumSeq(Tail(s)))

Dot(a, b) == SumSeq(Tuple([i \in 1..Len(a) |-> RMul(a[i], b[i])]))

ToRat(v) == Tuple([i \in 1..Len(v) |-> R(v[i])])

DropAt(s, j) == Tuple([i \in 1..(Len(s) - 1) |-> IF i < j THEN s[i] ELSE s[i + 1]])

\* arma::det, by Laplace expansion along the first row.
RECURSIVE Det(_)
Det(M) ==
    IF Len(M) = 0 THEN R(1)
    ELSE IF Len(M) = 1 THEN M[1][1]
    ELSE IF Len(M) = 2
    THEN RSub(RMul(M[1][1], M[2][2]), RMul(M[1][2], M[2][1]))
    ELSE SumSeq(Tuple([j \in 1..Len(M) |->
            RMul(IF j % 2 = 1 THEN M[1][j] ELSE RNeg(M[1][j]),
                 Det(Tuple([i \in 1..(Len(M) - 1) |-> DropAt(M[i + 1], j)])))]))

ReplaceCol(M, j, c) ==
    Tuple([i \in 1..Len(M) |-> Tuple([k \in 1..Len(M[i]) |-> IF k = j THEN c[i] ELSE M[i][k]])])

(***************************************************************************)
(* Point                                                                   *)
(***************************************************************************)
NullPoint == <<>>

IsNullPoint(p) == p = NullPoint

IsStrictlyPositive(p) == \A i \in 1..Len(p) : RGt(p[i], R(0))

\* Point::operator<, lexicographic order of points of one dimension
LexLess(p, q) ==
    \E k \in 1..Len(p) :
        /\ RLt(p[k], q[k])
        /\ \A j \in 1..(k - 1) : p[j] = q[j]

\* Domination as the glossary words it: no worse everywhere and better
\* somewhere.
DominatesStrictly(p, q, e) ==
    /\ \A i \in 1..Len(p) : RLe(p[i], RMul(RAdd(R(1), e), q[i]))
    /\ \E i \in 1..Len(p) : RLt(p[i], RMul(RAdd(R(1), e), q[i]))

\* Point::dominates(q, e): p e-covers q, p_i <= (1 + e) q_i for all
\* i (for points >= 0 of one dimension and e >= 0).
Dominates(p, q, e) ==
    \A i \in 1..Len(p) : RLe(p[i], RMul(RAdd(R(1), e), q[i]))

\* The largest element of a non-empty sequence of rationals.
RECURSIVE MaxSeq(_)
MaxSeq(s) == IF Len(s) = 1 THEN s[1] ELSE StdMax(MaxSeq(Tail(s)), Head(s))

\* ratioDistance without the lower limit 0
PointRatioDistanceUnlimited(p, q) ==
    IF Len(p) # Len(q) THEN [err |-> "DifferentDimensions", val |-> R(0)]
    ELSE [err |-> "none",
          val |-> MaxSeq(Tuple([i \in 1..Len(p) |->
                            RDiv(RSub(q[i], p[i]), p[i])]))]

\* Point::ratioDistance(q): max{max_i (q_i - p_i) / p_i, 0}
PointRatioDistance(p, q) ==
    IF Len(p) # Len(q) THEN [err |-> "DifferentDimensions", val |-> R(0)]
    ELSE [err |-> "none",
          val |-> StdMax(MaxSeq(Tuple([i \in 1..Len(p) |->
                                    RDiv(RSub(q[i], p[i]), p[i])])), R(0))]

\* Point::dominates(q, eps) with its exceptions
PointDominates(p, q, e) ==
    IF Len(p) # Len(q) THEN [err |-> "DifferentDimensions", val |-> FALSE]
    ELSE IF RLt(e, R(0))
    THEN [err |-> "NegativeApproximationRatio", val |-> FALSE]
    ELSE IF \E i \in 1..Len(p) : RLt(p[i], R(0)) \/ RLt(q[i], R(0))
    THEN [err |-> "NotPositivePoint", val |-> FALSE]
    ELSE [err |-> "none", val |-> Dominates(p, q, e)]

(***************************************************************************)
(* Hyperplane: a_1 x_1 + ... + a_n x_n = b, kept as (coefficients_, b_).   *)
(***************************************************************************)
\* Hyperplane::Hyperplane(a1, a2, b), Hyperplane(a1, a2, a3, b) and the
\* constructors from a range of coefficients
Hyperplane(coefficients, b) == [coefficients |-> coefficients, b |-> b]

\* Hyperplane::space_dimension
SpaceDimension(h) == Len(h.coefficients)

\* Hyperplane::operator==
HyperplaneEquals(h, hyperplane) ==
    IF SpaceDimension(h) # SpaceDimension(hyperplane) THEN FALSE
    ELSE \A i \in 1..SpaceDimension(h) :
            ~(RMul(h.coefficients[i], hyperplane.b)
                # RMul(hyperplane.coefficients[i], h.b))

\* Hyperplane::isParallel
IsParallel(h, hyperplane) ==
    IF SpaceDimension(h) # SpaceDimension(hyperplane) THEN FALSE
    ELSE \A i \in 1..SpaceDimension(h) :
            ~(RMul(h.coefficients[i], hyperplane.coefficients[1])
                # RMul(hyperplane.coefficients[i], h.coefficients[1]))

\* parallelThrough that keeps the receiver's b
ParallelThroughKeepsB(h, p) == Hyperplane(h.coefficients, h.b)

\* Hyperplane::parallelThrough (p of the hyperplane's dimension)
ParallelThrough(h, p) == Hyperplane(h.coefficients, Dot(h.coefficients, p))

\* intersection without the test for parallel hyperplanes
IntersectionUnchecked(h, hyperplane) ==
    IF SpaceDimension(h) # 2 \/ SpaceDimension(hyperplane) # 2
    THEN [err |-> "Not2DHyperplanes", val |-> NullPoint]
    ELSE LET a == h.coefficients
             c == hyperplane.coefficients
             x0 == RDiv(RSub(RMul(a[2], hyperplane.b), RMul(h.b, c[2])),
                        RSub(RMul(a[2], c[1]), RMul(a[1], c[2])))
             y0 == IF a[2] # R(0)
                   THEN RDiv(RSub(h.b, RMul(a[1], x0)), a[2])
                   ELSE RDiv(RSub(hyperplane.b, RMul(c[1], x0)), c[2])
         IN  [err |-> "none", val |-> <<x0, y0>>]

\* intersection with y0 always taken from the receiver's equation
IntersectionOwnY(h, hyperplane) ==
    IF SpaceDimension(h) # 2 \/ SpaceDimension(hyperplane) # 2
    THEN [err |-> "Not2DHyperplanes", val |-> NullPoint]
    ELSE IF IsParallel(h, hyperplane)
    THEN [err |-> "ParallelHyperplanes", val |-> NullPoint]
    ELSE LET a == h.coefficients
             c == hyperplane.coefficients
             x0 == RDiv(RSub(RMul(a[2], hyperplane.b), RMul(h.b, c[2])),
                        RSub(RMul(a[2], c[1]), RMul(a[1], c[2])))
             y0 == RDiv(RSub(h.b, RMul(a[1], x0)), a[2])
         IN  [err |-> "none", val |-> <<x0, y0>>]

\* Hyperplane::intersection
Intersection(h, hyperplane) ==
    IF SpaceDimension(h) # 2 \/ SpaceDimension(hyperplane) # 2
    THEN [err |-> "Not2DHyperplanes", val |-> NullPoint]
    ELSE IF IsParallel(h, hyperplane)
    THEN [err |-> "ParallelHyperplanes", val |-> NullPoint]
    ELSE LET a == h.coefficients
             c == hyperplane.coefficients
             x0 == RDiv(RSub(RMul(a[2], hyperplane.b), RMul(h.b, c[2])),
                        RSub(RMul(a[2], c[1]), RMul(a[1], c[2])))
             y0 == IF a[2] # R(0)
                   THEN RDiv(RSub(h.b, RMul(a[1], x0)), a[2])
                   ELSE RDiv(RSub(hyperplane.b, RMul(c[1], x0)), c[2])
         IN  [err |-> "none", val |-> <<x0, y0>>]

\* init with the division also taken for two points of one height
HyperplaneInitAlwaysOblique(p1, p2) ==
    LET a2 == RDiv(RSub(p2[1], p1[1]), RSub(p1[2], p2[2]))
    IN  Hyperplane(<<R(1), a2>>, RAdd(p1[1], RMul(a2, p1[2])))

\* Hyperplane::init on the first two points p1 < p2 of the std::set
HyperplaneInit(p1, p2) ==
    IF p1[2] # p2[2]
    THEN LET a2 == RDiv(RSub(p2[1], p1[1]), RSub(p1[2], p2[2]))
         IN  Hyperplane(<<R(1), a2>>, RAdd(p1[1], RMul(a2, p1[2])))
    ELSE Hyperplane(<<R(0), R(1)>>, p1[2])

\* The smallest element of a std::set<Point> (points of one dimension).
SetBegin(S) == CHOOSE p \in S : \A q \in S \ {p} : LexLess(p, q)

\* Hyperplane::Hyperplane(const Point & p1, const Point & p2)
HyperplaneFromTwoPoints(p1, p2) ==
    IF p1 = p2 THEN [err |-> "SamePoints", val |-> FALSE]
    ELSE IF Len(p1) # 2 \/ Len(p2) # 2
    THEN [err |-> "Not2DPoints", val |-> FALSE]
    ELSE LET first == SetBegin({p1, p2})
         IN  [err |-> "none",
              val |-> HyperplaneInit(first, SetBegin({p1, p2} \ {first}))]

\* Hyperplane::Hyperplane(const Point * first, const Point * last) for
\* distinct points of one dimension.  init() asserts that the set holds
\* exactly two points; a build with NDEBUG goes on with the first two.
HyperplaneFromPointRange(points, ndebug) ==
    LET S == {points[k] : k \in 1..Len(points)}
        first == SetBegin(S)
    IN  IF Cardinality(S) # 2 /\ ~ndebug
        THEN [err |-> "AssertionFailed", val |-> FALSE]
        ELSE [err |-> "none",
              val |-> HyperplaneInit(first, SetBegin(S \ {first}))]

NoRatioDistance == [inf |-> FALSE, num |-> R(0)]

\* Hyperplane::ratioDistance.  dotProduct is a sum started at +0.0, so a
\* zero dotProduct is +0.0: x / dotProduct is +infinity for x > 0,
\* -infinity for x < 0 and NaN for x = 0; std::max(-infinity, 0.0) = 0.0.
HyperplaneRatioDistance(h, p) ==
    IF SpaceDimension(h) # Len(p)
    THEN [err |-> "DifferentDimensions", val |-> NoRatioDistance]
    ELSE LET dotProduct == Dot(h.coefficients, p)
             x == RSub(h.b, dotProduct)
         IN  IF dotProduct # R(0)
             THEN [err |-> "none",
                   val |-> [inf |-> FALSE,
                            num |-> StdMax(RDiv(x, dotProduct), R(0))]]
             ELSE IF RGt(x, R(0))
             THEN [err |-> "none", val |-> [inf |-> TRUE, num |-> R(0)]]
             ELSE IF RLt(x, R(0))
             THEN [err |-> "none", val |-> [inf |-> FALSE, num |-> R(0)]]
             ELSE [err |-> "none", val |-> [inf |-> FALSE, num |-> NaN]]

(***************************************************************************)
(* PointAndSolution<S>: (point, weightsUsed); the solution payload S plays *)
(* no part in the geometry and is left out.                                *)
(***************************************************************************)
PointAndSolution(p, w) == [isNull |-> FALSE, point |-> p, weightsUsed |-> w]

\* the null PointAndSolution
NullPointAndSolution == [isNull |-> TRUE, point |-> NullPoint, weightsUsed |-> <<>>]

(***************************************************************************)
(* Facet<S>                                                                *)
(*                                                                         *)
(* normal is the vector handed to / computed by the constructor;           *)
(* normalScaled says that normalizeNormalVector() has divided it by its    *)
(* (non-zero) L2-norm, so the real normal_ is normal / ||normal||: the     *)
(* norm is irrational in general and is kept symbolic.                     *)
(***************************************************************************)
NoFacet == [spaceDimension |-> 0, vertices |-> <<>>, normal |-> <<>>,
            normalScaled |-> FALSE, isBoundaryFacet |-> FALSE,
            localApproximationErrorUpperBound |-> R(0)]

\* the test "every element is negative" in the place of "none is positive"
HasAllNormalVectorElementsNegative(f) ==
    \A i \in 1..f.spaceDimension : RLt(f.normal[i], R(0))

\* Facet<S>::hasAllNormalVectorElementsNonPositive (a positive scale keeps
\* every sign; NaN > 0.0 is false).
HasAllNormalVectorElementsNonPositive(f) ==
    \A i \in 1..f.spaceDimension : ~RGt(f.normal[i], R(0))

\* Facet<S>::hasAllNormalVectorElementsNonNegative
HasAllNormalVectorElementsNonNegative(f) ==
    \A i \in 1..f.spaceDimension : ~RLt(f.normal[i], R(0))

\* a sign reversal of the first element only
ReverseNormalVectorSignFirstOnly(f) ==
    [f EXCEPT !.normal = Tuple([i \in 1..f.spaceDimension |->
                            IF i = 1 THEN RNeg(f.normal[i]) ELSE f.normal[i]])]

\* Facet<S>::reverseNormalVectorSign
ReverseNormalVectorSign(f) ==
    [f EXCEPT !.normal = Tuple([i \in 1..f.spaceDimension |-> RNeg(f.normal[i])])]

\* normalizeNormalVector that also clears the stored bound
NormalizeNormalVectorClearsBound(f) ==
    LET sq == SumSeq([i \in 1..f.spaceDimension |-> RMul(f.normal[i], f.normal[i])])
    IN  IF IsNaN(sq) \/ REq(sq, R(0))
        THEN [f EXCEPT !.normal = Tuple([i \in 1..f.spaceDimension |-> NaN]),
                       !.localApproximationErrorUpperBound = R(0)]
        ELSE [f EXCEPT !.normalScaled = TRUE,
                       !.localApproximationErrorUpperBound = R(0)]

\* Facet<S>::normalizeNormalVector: every element is divided by the
\* L2-norm.  A zero norm gives 0.0 / 0.0 = NaN in every element, a NaN
\* norm gives NaN; a vector that is already scaled has norm 1.
NormalizeNormalVector(f) ==
    LET sq == SumSeq([i \in 1..f.spaceDimension |-> RMul(f.normal[i], f.normal[i])])
    IN  IF IsNaN(sq) \/ REq(sq, R(0))
        THEN [f EXCEPT !.normal = Tuple([i \in 1..f.spaceDimension |-> NaN])]
        ELSE [f EXCEPT !.normalScaled = TRUE]

\* Facet<S>::computeMeanVertexWeights
ComputeMeanVertexWeights(f) ==
    Tuple([i \in 1..f.spaceDimension |->
        RDiv(SumSeq(Tuple([k \in 1..Len(f.vertices) |-> f.vertices[k].weightsUsed[i]])),
             R(f.spaceDimension))])

\* Facet<S>::computeLowerDistalPoint: solve W x = b (Cramer's rule); the
\* null Point when there is no unique solution.
ComputeLowerDistalPoint(f) ==
    LET d == f.spaceDimension
        W == Tuple([i \in 1..d |-> f.vertices[i].weightsUsed])
        b == Tuple([i \in 1..d |-> Dot(f.vertices[i].weightsUsed, f.vertices[i].point)])
        dt == Det(W)
    IN  IF REq(dt, R(0)) THEN NullPoint
        ELSE Tuple([j \in 1..d |-> RDiv(Det(ReplaceCol(W, j, b)), dt)])

\* ratioDistance with the test for n.p = 0 made before the test for a
\* point on the facet.
RatioDistanceInfiniteFirst(f, p) ==
    IF IsNullPoint(p) THEN [err |-> "NullObject", val |-> R(0)]
    ELSE IF f.spaceDimension # Len(p)
    THEN [err |-> "DifferentDimensions", val |-> R(0)]
    ELSE IF ~IsStrictlyPositive(p)
    THEN [err |-> "NotStrictlyPositivePoint", val |-> R(0)]
    ELSE LET aPointOnTheFacet == f.vertices[1].point
             dotProduct == Dot(f.normal, p)
             facetOffset == Dot(f.normal, aPointOnTheFacet)
         IN  IF REq(dotProduct, R(0))
             THEN [err |-> "InfiniteRatioDistance", val |-> R(0)]
             ELSE IF REq(dotProduct, facetOffset)
             THEN [err |-> "none", val |-> R(0)]
             ELSE [err |-> "none",
                   val |-> StdMax(RDiv(RSub(facetOffset, dotProduct), dotProduct), R(0))]

\* Facet<S>::ratioDistance.  With a scaled normal both dotProduct and
\* facetOffset carry the same factor 1 / ||normal|| > 0, which changes
\* neither comparison nor the quotient.
RatioDistance(f, p) ==
    IF IsNullPoint(p) THEN [err |-> "NullObject", val |-> R(0)]
    ELSE IF f.spaceDimension # Len(p)
    THEN [err |-> "DifferentDimensions", val |-> R(0)]
    ELSE IF ~IsStrictlyPositive(p)
    THEN [err |-> "NotStrictlyPositivePoint", val |-> R(0)]
    ELSE LET aPointOnTheFacet == f.vertices[1].point
             dotProduct == Dot(f.normal, p)
             facetOffset == Dot(f.normal, aPointOnTheFacet)
         IN  IF REq(dotProduct, facetOffset)
             THEN [err |-> "none", val |-> R(0)]
             ELSE IF REq(dotProduct, R(0))
             THEN [err |-> "InfiniteRatioDistance", val |-> R(0)]
             ELSE [err |-> "none",
                   val |-> StdMax(RDiv(RSub(facetOffset, dotProduct), dotProduct), R(0))]

\* the normal with the appended column holding 1, 2, .., d instead of ones
ComputeAndSetFacetNormalSkewed(f, preferPositiveNormalVector) ==
    LET d == f.spaceDimension
        M == Tuple([k \in 1..d |-> f.vertices[k].point])
        skewed == [k \in 1..d |-> R(k)]
        g == [f EXCEPT !.normal = Tuple([i \in 1..d |-> Det(ReplaceCol(M, i, skewed))])]
    IN  IF preferPositiveNormalVector /\ HasAllNormalVectorElementsNonPositive(g)
        THEN ReverseNormalVectorSign(g)
        ELSE g

\* Facet<S>::computeAndSetFacetNormal: element i is the determinant of the
\* vertex-coordinate matrix with column i replaced by ones.
ComputeAndSetFacetNormal(f, preferPositiveNormalVector) ==
    LET d == f.spaceDimension
        M == Tuple([k \in 1..d |-> f.vertices[k].point])
        ones == [k \in 1..d |-> R(1)]
        g == [f EXCEPT !.normal = Tuple([i \in 1..d |-> Det(ReplaceCol(M, i, ones))])]
    IN  IF preferPositiveNormalVector /\ HasAllNormalVectorElementsNonPositive(g)
        THEN ReverseNormalVectorSign(g)
        ELSE g

\* The classification with the boundary flag of the "LDP not strictly
\* positive" branch left at the value set before the test.
ComputeAndSetBoundKeepsFlag(f) ==
    LET lowerDistalPoint == ComputeLowerDistalPoint(f)
    IN  IF ~IsNullPoint(lowerDistalPoint)
        THEN IF IsStrictlyPositive(lowerDistalPoint)
             THEN LET rd == RatioDistance(f, lowerDistalPoint)
                  IN  [err |-> rd.err,
                       facet |-> [f EXCEPT !.isBoundaryFacet = FALSE,
                                    !.localApproximationErrorUpperBound = rd.val]]
             ELSE [err |-> "none",
                   facet |-> [f EXCEPT !.isBoundaryFacet = FALSE,
                                !.localApproximationErrorUpperBound = R(-1)]]
        ELSE [err |-> "none",
              facet |-> [f EXCEPT !.isBoundaryFacet = TRUE,
                           !.localApproximationErrorUpperBound = R(-2)]]

\* Facet<S>::computeAndSetLocalApproximationErrorUpperBoundAndIsBoundaryFacet
\* An exception of ratioDistance leaves the constructor.
ComputeAndSetLocalApproximationErrorUpperBoundAndIsBoundaryFacet(f) ==
    LET lowerDistalPoint == ComputeLowerDistalPoint(f)
    IN  IF ~IsNullPoint(lowerDistalPoint)
        THEN IF IsStrictlyPositive(lowerDistalPoint)
             THEN LET rd == RatioDistance(f, lowerDistalPoint)
                  IN  [err |-> rd.err,
                       facet |-> [f EXCEPT !.isBoundaryFacet = FALSE,
                                    !.localApproximationErrorUpperBound = rd.val]]
             ELSE [err |-> "none",
                   facet |-> [f EXCEPT !.isBoundaryFacet = TRUE,
                                !.localApproximationErrorUpperBound = R(-1)]]
        ELSE [err |-> "none",
              facet |-> [f EXCEPT !.isBoundaryFacet = TRUE,
                           !.localApproximationErrorUpperBound = R(-2)]]

\* The vertex checks with every vertex tested for null before any dimension
\* is compared.
VertexCheckNullFirst(vertices, spaceDimension) ==
    IF \E k \in 1..Len(vertices) :
           vertices[k].isNull \/ IsNullPoint(vertices[k].point)
    THEN "NullObject"
    ELSE IF \E k \in 1..Len(vertices) : Len(vertices[k].point) # spaceDimension
    THEN "DifferentDimensions"
    ELSE "none"

\* The vertex checks shared by both constructors.
VertexCheck(vertices, spaceDimension) ==
    LET bad == {k \in 1..Len(vertices) :
                   \/ vertices[k].isNull
                   \/ IsNullPoint(vertices[k].point)
                   \/ Len(vertices[k].point) # spaceDimension}
        first == CHOOSE k \in bad : \A m \in bad : k <= m
    IN  IF bad = {} THEN "none"
        ELSE IF vertices[first].isNull \/ IsNullPoint(vertices[first].point)
        THEN "NullObject"
        ELSE "DifferentDimensions"

\* Facet<S>::Facet(firstVertex, lastVertex, preferPositiveNormalVector)
FacetComputeNormal(vertices, preferPositiveNormalVector) ==
    LET d == Len(vertices[1].point)
        chk == VertexCheck(vertices, d)
        f0 == [NoFacet EXCEPT !.spaceDimension = d, !.vertices = vertices]
    IN  IF chk # "none" THEN [err |-> chk, facet |-> NoFacet]
        ELSE ComputeAndSetLocalApproximationErrorUpperBoundAndIsBoundaryFacet(
                 ComputeAndSetFacetNormal(f0, preferPositiveNormalVector))

\* Facet<S>::Facet(firstVertex, lastVertex, firstElemOfFacetNormal,
\*                 lastElemOfFacetNormal)
FacetSuppliedNormal(vertices, normal) ==
    LET d == Len(normal)
        chk == VertexCheck(vertices, d)
        f0 == [NoFacet EXCEPT !.spaceDimension = d, !.vertices = vertices,
                              !.normal = normal]
    IN  IF chk # "none" THEN [err |-> chk, facet |-> NoFacet]
        ELSE ComputeAndSetLocalApproximationErrorUpperBoundAndIsBoundaryFacet(f0)


(***************************************************************************)
(* NonDominatedSet<Point>                                                  *)
(***************************************************************************)
\* a test that finds only an equal stored element
NdsContains(S, x) == x \in S

\* NonDominatedSet<T>::dominates(x): some stored element 0-dominates x.
NdsDominates(S, x) == \E y \in S : Dominates(y, x, R(0))

\* insert that forgets to remove the elements the new one dominates
NdsInsertContentsNoRemoval(S, x) ==
    IF NdsDominates(S, x) THEN S ELSE S \cup {x}

\* insert that removes the elements x dominates before it tests whether x
\* is itself dominated
NdsInsertContentsRemovesFirst(S, x) ==
    IF NdsDominates(S, x) THEN {y \in S : ~Dominates(x, y, R(0))}
    ELSE {y \in S : ~Dominates(x, y, R(0))} \cup {x}

\* NonDominatedSet<T>::insert(x), the contents afterwards
NdsInsertContents(S, x) ==
    IF NdsDominates(S, x) THEN S
    ELSE {y \in S : ~Dominates(x, y, R(0))} \cup {x}

\* NonDominatedSet<T>::insert(x), the value returned
NdsInsertReturn(S, x) == ~NdsDominates(S, x)


(***************************************************************************)
(* Facet<S>: the inputs of the model and its specification.  One Facet     *)
(* object is constructed per behaviour; a constructor that throws leaves   *)
(* no object (facet = NoFacet, facetErr names the exception).              *)
(***************************************************************************)
Dims == {2, 3}

\* 3D vertices are taken from the first NumPoints3 of these points.
Points3 == << <<1, 2, 3>>, <<2, 2, 2>>, <<3, 2, 1>>, <<1, 1, 2>>,
              <<3, 1, 2>>, <<2, 3, 1>>, <<1, 1, 1>>, <<3, 3, 3>> >>

FacetPoints(d) ==
    IF d = 2 THEN {ToRat(p) : p \in [1..2 -> 1..MaxCoord]}
    ELSE {ToRat(Points3[k]) : k \in 1..NumPoints3}

\* weightsUsed of the d vertices (non-negative, as the oracle's weights are)
WeightAssignments(d) ==
    IF d = 2
    THEN [1..2 -> {<<1, 0>>, <<0, 1>>, <<1, 1>>}]
    ELSE {<< <<1, 0, 0>>, <<0, 1, 0>>, <<0, 0, 1>> >>,
          << <<1, 0, 0>>, <<1, 0, 0>>, <<0, 0, 1>> >>,
          << <<1, 1, 0>>, <<0, 1, 1>>, <<1, 0, 1>> >>,
          << <<1, 1, 1>>, <<0, 1, 0>>, <<0, 1, 2>> >>}

VertexInputs(d) ==
    {Tuple([k \in 1..d |-> PointAndSolution(ps[k], ToRat(ws[k]))]) :
        ps \in [1..d -> FacetPoints(d)], ws \in WeightAssignments(d)}

\* Vertices a constructor must refuse: the null PointAndSolution, a
\* PointAndSolution holding the null Point, and one of another dimension.
GoodVertex(d) ==
    IF d = 2 THEN PointAndSolution(ToRat(<<1, 2>>), ToRat(<<1, 1>>))
    ELSE PointAndSolution(ToRat(<<1, 2, 3>>), ToRat(<<1, 1, 1>>))

InvalidVertices(d) ==
    {NullPointAndSolution,
     PointAndSolution(NullPoint, ToRat([i \in 1..d |-> 1])),
     IF d = 2 THEN GoodVertex(3) ELSE GoodVertex(2)}

\* d vertices of which at least one is invalid
InvalidVertexInputs(d) ==
    {Tuple(vs) : vs \in ([1..d -> InvalidVertices(d) \cup {GoodVertex(d)}]
                            \ {[k \in 1..d |-> GoodVertex(d)]})}

\* The compute-normal constructor takes the space dimension from its first
\* vertex and asserts that it is given that many vertices.
FirstVertexHasDimension(vs, d) ==
    ~vs[1].isNull /\ Len(vs[1].point) = d

NormalInputs(d) ==
    {ToRat([i \in 1..d |-> 0]), ToRat([i \in 1..d |-> 1]),
     ToRat([i \in 1..d |-> -1]),
     ToRat([i \in 1..d |-> IF i = 1 THEN 1 ELSE IF i = 2 THEN -1 ELSE 0])}

FacetVars == <<facet, facetErr, facetOp, facetIn, facetRet>>
NdsVars == <<nds, ndsLog>>
DriverVars == <<feasible, eps, pc, approx, queue, finalized, stamp, iter, lastPopped>>
HyperplaneVars == <<hs, hOp, hRet>>

NoEntry == [facet |-> NoFacet, stamp |-> 0]

NoArgs == [ctor |-> "none", vertices |-> <<>>, normal |-> <<>>,
           preferPositiveNormalVector |-> FALSE]

NoReturn == [arg |-> NullPoint, val |-> R(0)]

NoHyperplaneReturn == [arg |-> NullPoint, err |-> "none", val |-> FALSE]

PointVars == <<pointCall>>
AStarVars == <<graph, timestamp, node, openNodesQueue, astarPc, query>>

NoPointCall == [op |-> "none", p |-> NullPoint, q |-> NullPoint, eps |-> R(0),
                err |-> "none", val |-> R(0)]

PointIdle == pointCall = NoPointCall

NoGraph == [edges |-> <<>>, special |-> <<>>]

NoQuery == [source |-> 0, target |-> 0, ret |-> 0, count |-> 0]

AStarIdle ==
    /\ graph = NoGraph
    /\ timestamp = 0
    /\ node = <<>>
    /\ openNodesQueue = {}
    /\ astarPc = "idle"
    /\ query = NoQuery

HyperplaneIdle ==
    /\ hs = <<>>
    /\ hOp = "none"
    /\ hRet = NoHyperplaneReturn

DriverIdle ==
    /\ feasible = {}
    /\ eps = R(0)
    /\ pc = "idle"
    /\ approx = {}
    /\ queue = <<>>
    /\ finalized = {}
    /\ stamp = 0
    /\ iter = 0
    /\ lastPopped = NoEntry

FacetInit ==
    /\ facet = NoFacet
    /\ facetErr = "none"
    /\ facetOp = "none"
    /\ facetIn = NoArgs
    /\ facetRet = NoReturn

NdsIdle ==
    /\ nds = {}
    /\ ndsLog = <<>>

ConstructComputeNormal ==
    /\ facetOp = "none"
    /\ \E d \in Dims : \E prefer \in BOOLEAN :
       \E vs \in VertexInputs(d) \cup
                  {x \in InvalidVertexInputs(d) : FirstVertexHasDimension(x, d)} :
          LET r == FacetComputeNormal(vs, prefer)
          IN  /\ facet' = IF r.err = "none" THEN r.facet ELSE NoFacet
              /\ facetErr' = r.err
              /\ facetIn' = [ctor |-> "computeNormal", vertices |-> vs,
                             normal |-> <<>>,
                             preferPositiveNormalVector |-> prefer]
    /\ facetOp' = "construct"
    /\ UNCHANGED <<facetRet, NdsVars, DriverVars, HyperplaneVars, PointVars, AStarVars>>

ConstructSuppliedNormal ==
    /\ facetOp = "none"
    /\ \E d \in Dims : \E n \in NormalInputs(d) :
       \E vs \in VertexInputs(d) \cup InvalidVertexInputs(d) :
          LET r == FacetSuppliedNormal(vs, n)
          IN  /\ facet' = IF r.err = "none" THEN r.facet ELSE NoFacet
              /\ facetErr' = r.err
              /\ facetIn' = [ctor |-> "suppliedNormal", vertices |-> vs,
                             normal |-> n,
                             preferPositiveNormalVector |-> FALSE]
    /\ facetOp' = "construct"
    /\ UNCHANGED <<facetRet, NdsVars, DriverVars, HyperplaneVars, PointVars, AStarVars>>

DoNormalizeNormalVector ==
    /\ facet # NoFacet
    /\ facet' = NormalizeNormalVector(facet)
    /\ facetOp' = "normalize"
    /\ facetErr' = "none"
    /\ facetRet' = NoReturn
    /\ UNCHANGED <<facetIn, NdsVars, DriverVars, HyperplaneVars, PointVars, AStarVars>>

DoReverseNormalVectorSign ==
    /\ facet # NoFacet
    /\ facet' = ReverseNormalVectorSign(facet)
    /\ facetOp' = "reverse"
    /\ facetErr' = "none"
    /\ facetRet' = NoReturn
    /\ UNCHANGED <<facetIn, NdsVars, DriverVars, HyperplaneVars, PointVars, AStarVars>>

\* The points ratioDistance is called with: the null Point, a point of
\* another dimension, points with a coordinate <= 0, and strictly positive
\* points.
RatioDistanceArgs(d) ==
    IF d = 2
    THEN {NullPoint, ToRat(<<1, 1, 1>>), ToRat(<<2, -1>>),
          ToRat(<<1, 1>>), ToRat(<<3, 1>>)}
    ELSE {NullPoint, ToRat(<<1, 1>>), ToRat(<<1, 0, 1>>),
          ToRat(<<1, 1, 1>>), ToRat(<<2, 1, 1>>)}

\* A call facet.ratioDistance(p); the method is const.
DoRatioDistance ==
    /\ facet # NoFacet
    /\ \E p \in RatioDistanceArgs(facet.spaceDimension) :
          LET r == RatioDistance(facet, p)
          IN  /\ facetErr' = r.err
              /\ facetRet' = [arg |-> p, val |-> r.val]
    /\ facetOp' = "ratioDistance"
    /\ UNCHANGED <<facet, facetIn, NdsVars, DriverVars, HyperplaneVars, PointVars, AStarVars>>

FacetNext ==
    \/ ConstructComputeNormal
    \/ ConstructSuppliedNormal
    \/ DoNormalizeNormalVector
    \/ DoReverseNormalVectorSign
    \/ DoRatioDistance

InitFacet == FacetInit /\ NdsIdle /\ DriverIdle /\ HyperplaneIdle /\ PointIdle /\ AStarIdle

SpecFacet == InitFacet /\ [][FacetNext]_vars


(***************************************************************************)
(* Properties of Facet<S>.                                                 *)
(***************************************************************************)
\* The lower-bound hyperplanes of f's vertices: row i is the weight vector
\* of vertex i.
LowerBoundMatrix(f) ==
    Tuple([i \in 1..f.spaceDimension |-> f.vertices[i].weightsUsed])

HasUniqueLDP(f) == ~REq(Det(LowerBoundMatrix(f)), R(0))

\* x lies on the lower-bound hyperplane of every vertex of f.
IsLDP(f, x) ==
    /\ Len(x) = f.spaceDimension
    /\ \A i \in 1..f.spaceDimension :
          REq(Dot(f.vertices[i].weightsUsed, x),
              Dot(f.vertices[i].weightsUsed, f.vertices[i].point))

JustConstructed == facetOp = "construct" /\ facetErr = "none"

\* C9: a successfully constructed Facet is in exactly one of three states:
\* (a) no unique LDP: boundary, bound -2; (b) the LDP is not strictly
\* positive: boundary, bound -1; (c) the LDP is strictly positive: not
\* boundary, bound = ratioDistance(LDP) >= 0.  Hence boundary iff bound < 0.
FacetThreeStates ==
    JustConstructed =>
        LET f == facet
            x == ComputeLowerDistalPoint(f)
            b == f.localApproximationErrorUpperBound
        IN  /\ f.isBoundaryFacet <=> RLt(b, R(0))
            /\ IF ~HasUniqueLDP(f)
               THEN f.isBoundaryFacet /\ b = R(-2)
               ELSE /\ IsLDP(f, x)
                    /\ IF ~IsStrictlyPositive(x)
                       THEN f.isBoundaryFacet /\ b = R(-1)
                       ELSE /\ ~f.isBoundaryFacet
                            /\ RatioDistance(f, x).err = "none"
                            /\ b = RatioDistance(f, x).val
                            /\ RLe(R(0), b)

\* C9 witness: a 3D facet whose LDP exists and is not strictly positive.
FacetThreeStatesWitness ==
    /\ JustConstructed
    /\ facet.spaceDimension = 3
    /\ HasUniqueLDP(facet)
    /\ ~IsStrictlyPositive(ComputeLowerDistalPoint(facet))
    /\ facet.isBoundaryFacet

\* C10: every Facet with isBoundaryFacet = false has, in every state it
\* reaches after construction, a strictly positive LDP whose ratioDistance
\* equals the stored bound.
NonBoundaryFacetBoundIsRatioDistance ==
    (facet # NoFacet /\ ~facet.isBoundaryFacet) =>
        LET x == ComputeLowerDistalPoint(facet)
        IN  /\ IsStrictlyPositive(x)
            /\ RatioDistance(facet, x).err = "none"
            /\ RatioDistance(facet, x).val = facet.localApproximationErrorUpperBound

\* n.p and the offset n.v0 of the last ratioDistance call
LastDotProduct == Dot(facet.normal, facetRet.arg)
LastFacetOffset == Dot(facet.normal, facet.vertices[1].point)

\* C11: ratioDistance(p) fails NullObject for a null p, DifferentDimensions
\* for a p of another dimension, NotStrictlyPositivePoint for a p with a
\* coordinate <= 0, InfiniteRatioDistance exactly when n.p = 0 # n.v0;
\* otherwise it returns max(0, (n.v0 - n.p) / n.p), which is 0 when
\* n.p = n.v0 (also when both are 0); the facet is unchanged.  (The value
\* is compared for normals without a NaN element.)
RatioDistanceContract ==
    /\ [](facetOp = "ratioDistance" =>
            LET p == facetRet.arg
            IN  IF IsNullPoint(p) THEN facetErr = "NullObject"
                ELSE IF Len(p) # facet.spaceDimension
                THEN facetErr = "DifferentDimensions"
                ELSE IF \E i \in 1..Len(p) : RLe(p[i], R(0))
                THEN facetErr = "NotStrictlyPositivePoint"
                ELSE /\ facetErr = "InfiniteRatioDistance" <=>
                          /\ REq(LastDotProduct, R(0))
                          /\ ~REq(LastDotProduct, LastFacetOffset)
                     /\ facetErr \in {"none", "InfiniteRatioDistance"}
                     /\ (facetErr = "none" /\ ~IsNaN(LastDotProduct)) =>
                          LET q == RDiv(RSub(LastFacetOffset, LastDotProduct),
                                        LastDotProduct)
                          IN  /\ RLe(R(0), facetRet.val)
                              /\ LastDotProduct = LastFacetOffset =>
                                    facetRet.val = R(0)
                              /\ LastDotProduct # LastFacetOffset =>
                                    /\ RLe(q, facetRet.val)
                                    /\ facetRet.val \in {R(0), q})
    /\ [][facetOp' = "ratioDistance" => facet' = facet]_vars

\* C11 witness: a call with n.p = 0 = n.v0 has returned 0 (and not failed
\* InfiniteRatioDistance).
RatioDistanceContractWitness ==
    /\ facetOp = "ratioDistance"
    /\ facetErr = "none"
    /\ IsStrictlyPositive(facetRet.arg)
    /\ \E i \in 1..facet.spaceDimension : facet.normal[i] # R(0)
    /\ LastDotProduct = R(0)
    /\ LastFacetOffset = R(0)
    /\ facetRet.val = R(0)

\* The space dimension the last constructor call worked with.
CtorSpaceDimension ==
    IF facetIn.ctor = "computeNormal" THEN Len(facetIn.vertices[1].point)
    ELSE Len(facetIn.normal)

IsNullVertex(v) == v.isNull \/ IsNullPoint(v.point)

\* the positions of the vertices the last constructor call had to refuse
OffendingVertices ==
    {k \in 1..Len(facetIn.vertices) :
        \/ IsNullVertex(facetIn.vertices[k])
        \/ Len(facetIn.vertices[k].point) # CtorSpaceDimension}

\* C12 (as stated): a constructor given any null vertex fails NullObject,
\* given any (non-null) vertex of another dimension fails
\* DifferentDimensions, and constructs no facet.
CtorFailsAsStated ==
    facetOp = "construct" =>
        /\ (\E k \in 1..Len(facetIn.vertices) : IsNullVertex(facetIn.vertices[k])) =>
              facetErr = "NullObject" /\ facet = NoFacet
        /\ (\E k \in 1..Len(facetIn.vertices) :
                /\ ~IsNullVertex(facetIn.vertices[k])
                /\ Len(facetIn.vertices[k].point) # CtorSpaceDimension) =>
              facetErr = "DifferentDimensions" /\ facet = NoFacet

\* C12 (amended): a constructor given an invalid vertex constructs no
\* facet and fails as the first invalid vertex in order demands:
\* NullObject if that vertex is null or holds a null Point, otherwise
\* DifferentDimensions; given valid vertices it raises neither.
CtorFailsByFirstInvalidVertex ==
    facetOp = "construct" =>
        IF OffendingVertices = {}
        THEN facetErr \notin {"NullObject", "DifferentDimensions"}
        ELSE LET k == CHOOSE i \in OffendingVertices :
                          \A j \in OffendingVertices : i <= j
             IN  /\ facet = NoFacet
                 /\ facetErr = IF IsNullVertex(facetIn.vertices[k])
                               THEN "NullObject" ELSE "DifferentDimensions"

\* C12 witness: a constructor met a vertex of another dimension before a
\* null vertex and failed DifferentDimensions.
CtorFailsByFirstInvalidVertexWitness ==
    /\ facetOp = "construct"
    /\ facetErr = "DifferentDimensions"
    /\ facet = NoFacet
    /\ \E k \in 1..Len(facetIn.vertices) : IsNullVertex(facetIn.vertices[k])

\* the cross product (b - a) x (c - a) of three 3D points
CrossProduct(a, b, c) ==
    LET u == Tuple([i \in 1..3 |-> RSub(b[i], a[i])])
        v == Tuple([i \in 1..3 |-> RSub(c[i], a[i])])
    IN  <<RSub(RMul(u[2], v[3]), RMul(u[3], v[2])),
          RSub(RMul(u[3], v[1]), RMul(u[1], v[3])),
          RSub(RMul(u[1], v[2]), RMul(u[2], v[1]))>>

\* the last constructor call was given three distinct collinear 3D vertices
CollinearVertices3D ==
    /\ facetIn.ctor = "computeNormal"
    /\ Len(facetIn.vertices) = 3
    /\ \A k \in 1..3 : Len(facetIn.vertices[k].point) = 3
    /\ \A j, k \in 1..3 :
          j # k => facetIn.vertices[j].point # facetIn.vertices[k].point
    /\ CrossProduct(facetIn.vertices[1].point, facetIn.vertices[2].point,
                    facetIn.vertices[3].point) = <<R(0), R(0), R(0)>>

\* C13: a Facet built by the compute-normal constructor from three
\* collinear 3D vertices has an all-zero normal and is a boundary facet.
CollinearFacetIsBoundary ==
    (JustConstructed /\ CollinearVertices3D) =>
        /\ \A i \in 1..3 : facet.normal[i] = R(0)
        /\ facet.isBoundaryFacet

\* The squared L2-norm of the vector kept in f.normal.
SquaredNorm(f) ==
    SumSeq(Tuple([i \in 1..f.spaceDimension |-> RMul(f.normal[i], f.normal[i])]))

\* f and g have the same normal_ (dividing a vector of norm 1 by its norm
\* changes nothing).
SameNormal(f, g) ==
    /\ f.normal = g.normal
    /\ f.normalScaled = g.normalScaled \/ SquaredNorm(f) = R(1)

SameVerticesFlagAndBound(f, g) ==
    /\ f.spaceDimension = g.spaceDimension
    /\ f.vertices = g.vertices
    /\ f.isBoundaryFacet = g.isBoundaryFacet
    /\ f.localApproximationErrorUpperBound = g.localApproximationErrorUpperBound

\* C14 (as stated): after construction no operation changes the normal,
\* the bound, the vertices or the boundary flag of a Facet.
FacetImmutable ==
    [][facet # NoFacet =>
          SameNormal(facet, facet') /\ SameVerticesFlagAndBound(facet, facet')]_vars

\* C14 (amended): after construction no operation changes the bound, the
\* vertices or the boundary flag; the normal is changed by
\* normalizeNormalVector and reverseNormalVectorSign and by nothing else.
FacetImmutableButNormal ==
    [][facet # NoFacet =>
          /\ SameVerticesFlagAndBound(facet, facet')
          /\ facetOp' \notin {"normalize", "reverse"} => SameNormal(facet, facet')
          /\ facetOp' = "reverse" =>
                \A i \in 1..facet.spaceDimension :
                    facet'.normal[i] = RNeg(facet.normal[i])]_vars

\* C14 witness: a facet built from a supplied normal whose sign has been
\* reversed: its normal differs from the one it was constructed with, its
\* vertices are the ones it was constructed with.
FacetImmutableButNormalWitness ==
    /\ facetOp = "reverse"
    /\ facetIn.ctor = "suppliedNormal"
    /\ facet.normal # facetIn.normal
    /\ facet.vertices = facetIn.vertices
    /\ ~facet.isBoundaryFacet

\* The normal of the hyperplane through the vertices the compute-normal
\* constructor was given, in the orientation their order fixes: for two
\* 2D points a, b it is (b.y - a.y, a.x - b.x), for three 3D points
\* (b - a) x (c - a).
NormalFromVertexOrder ==
    LET v == facetIn.vertices
    IN  IF Len(v) = 2
        THEN <<RSub(v[2].point[2], v[1].point[2]), RSub(v[1].point[1], v[2].point[1])>>
        ELSE CrossProduct(v[1].point, v[2].point, v[3].point)

\* C15: in the compute-normal constructor with preferPositiveNormalVector
\* set, every sign of the computed normal is flipped exactly when every
\* component is <= 0, so the result never has all components <= 0 with one
\* < 0; without the flag the normal is kept as the vertex order gives it.
PreferPositiveFlipsNonPositive ==
    (JustConstructed /\ facetIn.ctor = "computeNormal") =>
        LET raw == NormalFromVertexOrder
            d == facet.spaceDimension
            flipped == Tuple([i \in 1..d |-> RNeg(raw[i])])
        IN  /\ facet.normal =
                  IF /\ facetIn.preferPositiveNormalVector
                     /\ \A i \in 1..d : RLe(raw[i], R(0))
                  THEN flipped ELSE raw
            /\ facetIn.preferPositiveNormalVector =>
                  ~(/\ \A i \in 1..d : RLe(facet.normal[i], R(0))
                    /\ \E i \in 1..d : RLt(facet.normal[i], R(0)))

\* C15 witness: the computed normal had a zero and a negative component
\* and none positive, the flag was set, and the signs were flipped.
PreferPositiveFlipsNonPositiveWitness ==
    /\ JustConstructed
    /\ facetIn.ctor = "computeNormal"
    /\ facetIn.preferPositiveNormalVector
    /\ \A i \in 1..facet.spaceDimension : RLe(NormalFromVertexOrder[i], R(0))
    /\ \E i \in 1..facet.spaceDimension : NormalFromVertexOrder[i] = R(0)
    /\ \E i \in 1..facet.spaceDimension : RLt(NormalFromVertexOrder[i], R(0))
    /\ \E i \in 1..facet.spaceDimension : RGt(facet.normal[i], R(0))


(***************************************************************************)
(* NonDominatedSet<Point>: specification.  The set starts empty; insert is *)
(* its only mutator.  ndsLog records every call and its return value.      *)
(***************************************************************************)
\* The points offered to insert: the first NumNdsPoints of these.
NdsPointPool ==
    << <<1, 1>>, <<1, 2>>, <<1, 3>>, <<2, 1>>, <<2, 2>>, <<2, 3>>,
       <<3, 1>>, <<3, 2>>, <<3, 3>>, <<4, 1>>, <<1, 4>>, <<4, 4>> >>

NdsPoints == {ToRat(NdsPointPool[k]) : k \in 1..NumNdsPoints}

NdsInit ==
    /\ nds = {}
    /\ ndsLog = <<>>

FacetIdle ==
    /\ facet = NoFacet
    /\ facetErr = "none"
    /\ facetOp = "none"
    /\ facetIn = NoArgs
    /\ facetRet = NoReturn

NdsInsert ==
    /\ Len(ndsLog) < MaxInserts
    /\ \E x \in NdsPoints :
          /\ nds' = NdsInsertContents(nds, x)
          /\ ndsLog' = Append(ndsLog, [arg |-> x, ret |-> NdsInsertReturn(nds, x)])
    /\ UNCHANGED <<FacetVars, DriverVars, HyperplaneVars, PointVars, AStarVars>>

NdsNext == NdsInsert

InitNDS == NdsInit /\ FacetIdle /\ DriverIdle /\ HyperplaneIdle /\ PointIdle /\ AStarIdle

SpecNDS == InitNDS /\ [][NdsNext]_vars

LastInsert == ndsLog[Len(ndsLog)]

\* C2: in every reachable state of a NonDominatedSet no stored element
\* 0-dominates another, distinct, stored element.
NdsPairwiseNonDominated ==
    \A x \in nds : \A y \in nds : x # y => ~Dominates(x, y, R(0))

\* C2 witness: three incomparable points are stored after an insert that
\* removed an earlier element.
NdsPairwiseNonDominatedWitness ==
    /\ Cardinality(nds) = 3
    /\ \E k \in 1..Len(ndsLog) : ndsLog[k].ret /\ ndsLog[k].arg \notin nds

\* C3: an insert of x while some stored y 0-dominates x returns false and
\* leaves the contents as they were; an insert that returns false changes
\* nothing.
NdsRejectedInsertChangesNothing ==
    [][ndsLog' # ndsLog =>
          LET x == ndsLog'[Len(ndsLog')].arg
              r == ndsLog'[Len(ndsLog')].ret
          IN  /\ (\E y \in nds : Dominates(y, x, R(0))) => ~r
              /\ ~r => nds' = nds]_vars

\* C3 witness: a rejected insert of a point that itself 0-dominates a
\* stored element (the stored element equals it).
NdsRejectedInsertWitness ==
    /\ ndsLog # <<>>
    /\ ~LastInsert.ret
    /\ \E y \in nds : Dominates(LastInsert.arg, y, R(0))

\* C4: an insert of x while no stored element 0-dominates x returns true;
\* afterwards x is stored, every stored y that x 0-dominates is gone, every
\* other element is still there, and nothing else was added.
NdsAcceptedInsertEffect ==
    [][ndsLog' # ndsLog =>
          LET x == ndsLog'[Len(ndsLog')].arg
              r == ndsLog'[Len(ndsLog')].ret
          IN  (\A y \in nds : ~Dominates(y, x, R(0))) =>
                 /\ r
                 /\ x \in nds'
                 /\ \A y \in nds : Dominates(x, y, R(0)) => y \notin nds'
                 /\ \A y \in nds : ~Dominates(x, y, R(0)) => y \in nds'
                 /\ \A z \in nds' : z = x \/ z \in nds]_vars

\* C4 witness: an accepted insert removed one element and kept another.
NdsAcceptedInsertWitness ==
    /\ Len(ndsLog) >= 3
    /\ LastInsert.ret
    /\ Cardinality(nds) = 2
    /\ \E k \in 1..(Len(ndsLog) - 1) : ndsLog[k].ret /\ ndsLog[k].arg \notin nds

\* C5: an insert of a point that is stored (it was inserted before and no
\* insert since removed it) returns false and leaves the size unchanged.
NdsSecondInsertRejected ==
    [][ndsLog' # ndsLog =>
          LET x == ndsLog'[Len(ndsLog')].arg
              r == ndsLog'[Len(ndsLog')].ret
          IN  x \in nds => ~r /\ Cardinality(nds') = Cardinality(nds)]_vars

\* C5 witness: a point was inserted, another insert followed, and the
\* second insert of the point was rejected.
NdsSecondInsertWitness ==
    /\ Len(ndsLog) = 3
    /\ ndsLog[1].ret
    /\ ndsLog[2].ret
    /\ ndsLog[2].arg # ndsLog[1].arg
    /\ ndsLog[3].arg = ndsLog[1].arg
    /\ ~ndsLog[3].ret
    /\ Cardinality(nds) = 2


\* the points offered to insert so far
NdsOffered == {ndsLog[k].arg : k \in 1..Len(ndsLog)}

\* C30: after any sequence of inserts into an initially empty set the
\* stored set is the set of coordinate-wise minimal points among all
\* points ever offered (so it does not depend on the insertion order), and
\* every point ever offered is 0-dominated by a stored element.
NdsIsMinimalOfOffered ==
    /\ nds = {x \in NdsOffered :
                \A y \in NdsOffered : Dominates(y, x, R(0)) => y = x}
    /\ \A x \in NdsOffered : \E y \in nds : Dominates(y, x, R(0))

\* C30 witness: one offered point was rejected, one accepted point has
\* been removed again, and two incomparable points are stored.
NdsIsMinimalOfOfferedWitness ==
    /\ \E k \in 1..Len(ndsLog) : ~ndsLog[k].ret
    /\ \E k \in 1..Len(ndsLog) : ndsLog[k].ret /\ ndsLog[k].arg \notin nds
    /\ Cardinality(nds) = 2

\* C29: for a strictly positive p of the facet's dimension ratioDistance(p)
\* has the same outcome (value or InfiniteRatioDistance) before and after
\* reverseNormalVectorSign(); a second reversal restores the normal; one
\* reversal swaps hasAllNormalVectorElementsNonNegative with
\* hasAllNormalVectorElementsNonPositive.
ReverseKeepsRatioDistance ==
    [][facetOp' = "reverse" =>
          /\ \A p \in {x \in RatioDistanceArgs(facet.spaceDimension) :
                          /\ ~IsNullPoint(x)
                          /\ Len(x) = facet.spaceDimension
                          /\ IsStrictlyPositive(x)} :
                RatioDistance(facet', p) = RatioDistance(facet, p)
          /\ ReverseNormalVectorSign(facet') = facet
          /\ HasAllNormalVectorElementsNonNegative(facet') <=>
                HasAllNormalVectorElementsNonPositive(facet)
          /\ HasAllNormalVectorElementsNonPositive(facet') <=>
                HasAllNormalVectorElementsNonNegative(facet)]_vars

\* C29 witness: the sign of a normal with a negative and no positive
\* element has been reversed, and the facet is at a positive ratio
\* distance from one of the points.
ReverseKeepsRatioDistanceWitness ==
    /\ facetOp = "reverse"
    /\ HasAllNormalVectorElementsNonNegative(facet)
    /\ ~HasAllNormalVectorElementsNonPositive(facet)
    /\ \E p \in RatioDistanceArgs(facet.spaceDimension) :
          /\ RatioDistance(facet, p).err = "none"
          /\ RGt(RatioDistance(facet, p).val, R(0))

\* The vertices the last constructor call was given are affinely
\* dependent: the differences to the first vertex are linearly dependent.
AffinelyDependentVertices ==
    LET v == facetIn.vertices
        d == Len(v)
        diff(k) == Tuple([i \in 1..d |-> RSub(v[k].point[i], v[1].point[i])])
    IN  IF d = 2 THEN \A i \in 1..2 : diff(2)[i] = R(0)
        ELSE \A i, j \in 1..3 :
                RMul(diff(2)[i], diff(3)[j]) = RMul(diff(2)[j], diff(3)[i])

\* C26: the normal n the compute-normal constructor computes from d
\* vertices of dimension d (d = 2, 3) has n.v_i = n.v_j for all vertices
\* (every vertex lies on n.x = n.v_0), and n is all-zero exactly when the
\* vertices are affinely dependent.
NormalThroughAllVertices ==
    (JustConstructed /\ facetIn.ctor = "computeNormal") =>
        LET d == facet.spaceDimension
        IN  /\ \A i, j \in 1..d :
                  Dot(facet.normal, facet.vertices[i].point) =
                      Dot(facet.normal, facet.vertices[j].point)
            /\ (\A i \in 1..d : facet.normal[i] = R(0)) <=>
                  AffinelyDependentVertices

\* C26 witness: a 3D facet whose computed normal has a positive and a
\* negative component and whose vertices do not lie on a plane through
\* the origin.
NormalThroughAllVerticesWitness ==
    /\ JustConstructed
    /\ facetIn.ctor = "computeNormal"
    /\ facet.spaceDimension = 3
    /\ \E i \in 1..3 : RGt(facet.normal[i], R(0))
    /\ \E i \in 1..3 : RLt(facet.normal[i], R(0))
    /\ Dot(facet.normal, facet.vertices[1].point) # R(0)

(***************************************************************************)
(* Hyperplane: specification.  Up to MaxHyperplanes objects are            *)
(* constructed; the operations are called on the first with the second as  *)
(* argument (every ordered pair occurs as the first two).                  *)
(***************************************************************************)
\* (a_1, .., a_n, b) of the hyperplanes the constructors are called with
HyperplanePool ==
    << <<1, 0, 0>>, <<0, 1, 0>>, <<0, 0, 0>>, <<1, 0, 1>>, <<0, 1, 1>>,
       <<1, 1, 1>>, <<2, 2, 2>>, <<-1, -1, -1>>, <<1, -1, 0>>,
       <<0, 1, 0, 0>>, <<0, 0, 1, 1>>, <<1, 1, 1, 1>>, <<2, 2, 2, 2>>,
       <<1, 1, 2>>, <<0, 2, 1>>, <<2, 1, 3>>, <<0, 1, 0, 1>>,
       <<0, 0, 0, 0>>, <<1, 1, 1, 3>>, <<0, 2, 0, 2>>,
       <<1, 2, 0>>, <<1, 0, 1, 2>> >>

HyperplaneInputs ==
    {Hyperplane(ToRat(SubSeq(HyperplanePool[k], 1, Len(HyperplanePool[k]) - 1)),
                R(HyperplanePool[k][Len(HyperplanePool[k])])) :
        k \in 1..NumHyperplanes}

HyperplanePoints(d) ==
    IF d = 2 THEN {ToRat(<<0, 0>>), ToRat(<<1, 1>>), ToRat(<<1, 2>>)}
    ELSE {ToRat(<<0, 0, 0>>), ToRat(<<1, 1, 1>>), ToRat(<<0, 1, 2>>)}

ConstructHyperplane ==
    /\ Len(hs) < MaxHyperplanes
    /\ \E h \in HyperplaneInputs : hs' = Append(hs, h)
    /\ hOp' = "construct"
    /\ hRet' = NoHyperplaneReturn
    /\ UNCHANGED <<FacetVars, NdsVars, DriverVars, PointVars, AStarVars>>

\* hs[1] == hs[2]
CallEquals ==
    /\ Len(hs) >= 2
    /\ hOp' = "=="
    /\ hRet' = [arg |-> NullPoint, err |-> "none",
                val |-> HyperplaneEquals(hs[1], hs[2])]
    /\ UNCHANGED <<hs, FacetVars, NdsVars, DriverVars, PointVars, AStarVars>>

\* hs[1].isParallel(hs[2])
CallIsParallel ==
    /\ Len(hs) >= 2
    /\ hOp' = "isParallel"
    /\ hRet' = [arg |-> NullPoint, err |-> "none",
                val |-> IsParallel(hs[1], hs[2])]
    /\ UNCHANGED <<hs, FacetVars, NdsVars, DriverVars, PointVars, AStarVars>>

\* hs[1].parallelThrough(p)
CallParallelThrough ==
    /\ Len(hs) >= 1
    /\ \E p \in HyperplanePoints(SpaceDimension(hs[1])) :
          hRet' = [arg |-> p, err |-> "none", val |-> ParallelThrough(hs[1], p)]
    /\ hOp' = "parallelThrough"
    /\ UNCHANGED <<hs, FacetVars, NdsVars, DriverVars, PointVars, AStarVars>>

\* hs[1].intersection(hs[2])
CallIntersection ==
    /\ Len(hs) >= 2
    /\ LET r == Intersection(hs[1], hs[2])
       IN  hRet' = [arg |-> NullPoint, err |-> r.err, val |-> r.val]
    /\ hOp' = "intersection"
    /\ UNCHANGED <<hs, FacetVars, NdsVars, DriverVars, PointVars, AStarVars>>

HyperplaneNext ==
    \/ ConstructHyperplane
    \/ CallEquals
    \/ CallIsParallel
    \/ CallParallelThrough
    \/ CallIntersection

InitHyperplane == HyperplaneIdle /\ FacetIdle /\ NdsIdle /\ DriverIdle /\ PointIdle /\ AStarIdle

SpecHyperplane == InitHyperplane /\ [][HyperplaneNext]_vars


(***************************************************************************)
(* Properties of Hyperplane.                                               *)
(***************************************************************************)
\* u and v are scalar multiples of one another: one of them is a multiple
\* of the other (every 2x2 minor of the matrix with rows u, v vanishes).
ScalarMultiples(u, v) ==
    \A i, j \in 1..Len(u) : RMul(u[i], v[j]) = RMul(u[j], v[i])

\* (a_1, .., a_n, b)
CoefficientsAndB(h) == Append(h.coefficients, h.b)

\* C16: operator== returns true iff the two hyperplanes have the same
\* dimension and (a, b) of one is a scalar multiple of (a, b) of the
\* other, b = 0 included.
EqualsIffSameHyperplane ==
    hOp = "==" =>
        (hRet.val <=>
            /\ SpaceDimension(hs[1]) = SpaceDimension(hs[2])
            /\ ScalarMultiples(CoefficientsAndB(hs[1]), CoefficientsAndB(hs[2])))

\* C17: operator== is reflexive, symmetric and transitive on the
\* Hyperplane values of one dimension.
EqualsIsEquivalence ==
    \A i, j, k \in 1..Len(hs) :
        (SpaceDimension(hs[i]) = SpaceDimension(hs[j])
            /\ SpaceDimension(hs[j]) = SpaceDimension(hs[k])) =>
            /\ HyperplaneEquals(hs[i], hs[i])
            /\ HyperplaneEquals(hs[i], hs[j]) => HyperplaneEquals(hs[j], hs[i])
            /\ (HyperplaneEquals(hs[i], hs[j]) /\ HyperplaneEquals(hs[j], hs[k])) =>
                  HyperplaneEquals(hs[i], hs[k])

\* C18: h1.isParallel(h2) returns true iff h1 and h2 have the same
\* dimension (any d >= 2) and their coefficient vectors a are scalar
\* multiples of one another.
IsParallelIffMultiples ==
    hOp = "isParallel" =>
        (hRet.val <=>
            /\ SpaceDimension(hs[1]) = SpaceDimension(hs[2])
            /\ ScalarMultiples(hs[1].coefficients, hs[2].coefficients))


\* C19: h.parallelThrough(p) has exactly h's coefficients a and b = a.p,
\* leaves h unchanged, is parallel to h, and compares equal to h when
\* a.p = h.b.
ParallelThroughContract ==
    /\ [](hOp = "parallelThrough" =>
            LET h == hs[1]
                p == hRet.arg
                g == hRet.val
            IN  /\ g.coefficients = h.coefficients
                /\ g.b = SumSeq(Tuple([i \in 1..Len(p) |-> RMul(h.coefficients[i], p[i])]))
                /\ IsParallel(h, g)
                /\ g.b = h.b => HyperplaneEquals(g, h) /\ HyperplaneEquals(h, g))
    /\ [][hOp' = "parallelThrough" => hs' = hs]_vars

\* C19 witness: parallelThrough was called with a point other than the
\* origin that lies on a hyperplane with b # 0.
ParallelThroughContractWitness ==
    /\ hOp = "parallelThrough"
    /\ hs[1].b # R(0)
    /\ hRet.val.b = hs[1].b
    /\ \E i \in 1..Len(hRet.arg) : hRet.arg[i] # R(0)

\* C20: intersection fails Not2DHyperplanes when either hyperplane is not
\* 2D, fails ParallelHyperplanes when both are 2D and parallel or the same
\* line, and otherwise returns a point; no division then has a zero
\* denominator (and the point lies on both lines).
IntersectionContract ==
    hOp = "intersection" =>
        LET a == hs[1].coefficients
            c == hs[2].coefficients
        IN  IF Len(a) # 2 \/ Len(c) # 2
            THEN hRet.err = "Not2DHyperplanes"
            ELSE IF ScalarMultiples(a, c)
            THEN hRet.err = "ParallelHyperplanes"
            ELSE /\ hRet.err = "none"
                 /\ RSub(RMul(a[2], c[1]), RMul(a[1], c[2])) # R(0)
                 /\ (IF a[2] # R(0) THEN a[2] ELSE c[2]) # R(0)
                 /\ \A i \in 1..2 : ~IsNaN(hRet.val[i])
                 /\ Dot(a, hRet.val) = hs[1].b
                 /\ Dot(c, hRet.val) = hs[2].b

\* C20 witness: an intersection was computed through the branch for a
\* receiver with coefficients_[1] = 0.
IntersectionContractWitness ==
    /\ hOp = "intersection"
    /\ hRet.err = "none"
    /\ hs[1].coefficients[2] = R(0)
    /\ hRet.val # <<R(0), R(0)>>

\* C21: for non-parallel 2D hyperplanes h1, h2 (a zero coefficient
\* included) the point h1.intersection(h2) returns satisfies a.x = b of
\* both, and h2.intersection(h1) returns the same point.
IntersectionSymmetric ==
    (/\ hOp = "intersection"
     /\ Len(hs[1].coefficients) = 2
     /\ Len(hs[2].coefficients) = 2
     /\ ~ScalarMultiples(hs[1].coefficients, hs[2].coefficients)) =>
        /\ hRet.err = "none"
        /\ Dot(hs[1].coefficients, hRet.val) = hs[1].b
        /\ Dot(hs[2].coefficients, hRet.val) = hs[2].b
        /\ Intersection(hs[2], hs[1]) = [err |-> "none", val |-> hRet.val]

\* C21 witness: a horizontal line has been intersected with a vertical
\* one, away from the axes.
IntersectionSymmetricWitness ==
    /\ hOp = "intersection"
    /\ hRet.err = "none"
    /\ hs[1].coefficients[1] = R(0)
    /\ hs[2].coefficients[2] = R(0)
    /\ hRet.val[1] # R(0)
    /\ hRet.val[2] # R(0)


(***************************************************************************)
(* Hyperplane built from points: specification.  One Hyperplane is         *)
(* constructed per behaviour, by the two-point constructor or by the       *)
(* constructor from a range of points, and ratioDistance is called on it.  *)
(***************************************************************************)
\* The points the two-point constructor is called with are the first
\* NumCtorPoints of these.
CtorPointPool ==
    << <<1, 1>>, <<1, 2>>, <<2, 1>>, <<2, 2>>, <<2, 3>>, <<3, 2>>,
       <<1, 1, 1>>, <<1, 2, 3>>, <<0, 0>>, <<3, 3>> >>

CtorPoints == {ToRat(CtorPointPool[k]) : k \in 1..NumCtorPoints}

\* The 3D points of the ranges are the first NumRangePoints of these.
RangePointPool ==
    << <<1, 0, 0>>, <<0, 1, 0>>, <<0, 0, 1>>, <<2, -1, 0>>, <<1, 1, 1>>,
       <<2, 2, 2>>, <<1, 2, 3>> >>

RangePoints3 == {ToRat(RangePointPool[k]) : k \in 1..NumRangePoints}

\* Ranges of n distinct points of dimension n: n = 3, the four unit points
\* for n = 4, and two ranges of two 2D points.
PointRanges ==
    {Tuple(ps) : ps \in {f \in [1..3 -> RangePoints3] :
                            \A i, j \in 1..3 : i # j => f[i] # f[j]}}
    \cup {<<ToRat(<<1, 0, 0, 0>>), ToRat(<<0, 1, 0, 0>>),
            ToRat(<<0, 0, 1, 0>>), ToRat(<<0, 0, 0, 1>>)>>,
          <<ToRat(<<1, 2>>), ToRat(<<2, 1>>)>>,
          <<ToRat(<<2, 1>>), ToRat(<<1, 1>>)>>}

HyperplaneRatioDistanceArgs ==
    {ToRat(<<1, 1>>), ToRat(<<1, 2>>), ToRat(<<3, 1>>), ToRat(<<1, 1, 1>>)}

\* Hyperplane h(p1, p2)
ConstructFromTwoPoints ==
    /\ hOp = "none"
    /\ \E p1, p2 \in CtorPoints :
          LET r == HyperplaneFromTwoPoints(p1, p2)
          IN  /\ hs' = IF r.err = "none" THEN <<r.val>> ELSE <<>>
              /\ hRet' = [arg |-> <<p1, p2>>, err |-> r.err, val |-> r.val]
    /\ hOp' = "constructFromTwoPoints"
    /\ UNCHANGED <<FacetVars, NdsVars, DriverVars, PointVars, AStarVars>>

\* Hyperplane h(points, points + n), in a build with or without NDEBUG
ConstructFromPointRange ==
    /\ hOp = "none"
    /\ \E points \in PointRanges : \E ndebug \in BOOLEAN :
          LET r == HyperplaneFromPointRange(points, ndebug)
          IN  /\ hs' = IF r.err = "none" THEN <<r.val>> ELSE <<>>
              /\ hRet' = [arg |-> points, err |-> r.err, val |-> r.val]
    /\ hOp' = "constructFromPointRange"
    /\ UNCHANGED <<FacetVars, NdsVars, DriverVars, PointVars, AStarVars>>

\* hs[1].ratioDistance(p); the method is const.
CallRatioDistance ==
    /\ Len(hs) >= 1
    /\ \E p \in HyperplaneRatioDistanceArgs :
          LET r == HyperplaneRatioDistance(hs[1], p)
          IN  hRet' = [arg |-> p, err |-> r.err, val |-> r.val]
    /\ hOp' = "ratioDistance"
    /\ UNCHANGED <<hs, FacetVars, NdsVars, DriverVars, PointVars, AStarVars>>

HyperplanePointsNext ==
    \/ ConstructFromTwoPoints
    \/ ConstructFromPointRange
    \/ CallRatioDistance

SpecHyperplanePoints == InitHyperplane /\ [][HyperplanePointsNext]_vars

\* C22: Hyperplane(p1, p2) fails SamePoints for p1 == p2, Not2DPoints for
\* distinct points of which one is not 2D; for two distinct 2D points it
\* constructs a line with a non-zero coefficient vector through both, the
\* same line for (p2, p1).
TwoPointCtorContract ==
    hOp = "constructFromTwoPoints" =>
        LET p1 == hRet.arg[1]
            p2 == hRet.arg[2]
        IN  IF p1 = p2 THEN hRet.err = "SamePoints" /\ hs = <<>>
            ELSE IF Len(p1) # 2 \/ Len(p2) # 2
            THEN hRet.err = "Not2DPoints" /\ hs = <<>>
            ELSE /\ hRet.err = "none"
                 /\ hs = <<hRet.val>>
                 /\ SpaceDimension(hs[1]) = 2
                 /\ \E i \in 1..2 : hs[1].coefficients[i] # R(0)
                 /\ \A i \in 1..2 : ~IsNaN(hs[1].coefficients[i])
                 /\ Dot(hs[1].coefficients, p1) = hs[1].b
                 /\ Dot(hs[1].coefficients, p2) = hs[1].b
                 /\ HyperplaneFromTwoPoints(p2, p1) =
                        [err |-> "none", val |-> hs[1]]

\* C22 witness: a horizontal line has been constructed from its two
\* points given in descending order.
TwoPointCtorContractWitness ==
    /\ hOp = "constructFromTwoPoints"
    /\ hRet.err = "none"
    /\ LexLess(hRet.arg[2], hRet.arg[1])
    /\ hRet.arg[1][2] = hRet.arg[2][2]
    /\ hs[1].b # R(0)

\* The points are affinely dependent: n points of dimension n lie in an
\* (n - 2)-flat iff every n - 1 of the differences to the first point
\* are linearly dependent; for n = 3 the cross product of the two
\* differences vanishes.
AffinelyDependent3(ps) ==
    \A i \in 1..3 : CrossProduct(ps[1], ps[2], ps[3])[i] = R(0)

\* C23: the range-of-points constructor given n points of dimension n
\* (n = 3 or 4) constructs an n-dimensional hyperplane through all of
\* them, with every coefficient and b zero when the points are affinely
\* dependent.
RangeCtorPassesThroughPoints ==
    (hOp = "constructFromPointRange" /\ Len(hRet.arg) \in {3, 4}) =>
        /\ hRet.err = "none"
        /\ SpaceDimension(hs[1]) = Len(hRet.arg)
        /\ \A k \in 1..Len(hRet.arg) :
              Dot(hs[1].coefficients, hRet.arg[k]) = hs[1].b
        /\ (Len(hRet.arg) = 3 /\ AffinelyDependent3(hRet.arg)) =>
              /\ \A i \in 1..3 : hs[1].coefficients[i] = R(0)
              /\ hs[1].b = R(0)

\* C24: ratioDistance(p) fails DifferentDimensions when the dimensions
\* differ; otherwise it returns max(0, (b - a.p) / a.p), and +infinity
\* (never a finite value) when a.p = 0 # b.
HyperplaneRatioDistanceContract ==
    hOp = "ratioDistance" =>
        LET p == hRet.arg
            dot == Dot(hs[1].coefficients, p)
            q == RDiv(RSub(hs[1].b, dot), dot)
        IN  IF Len(p) # SpaceDimension(hs[1])
            THEN hRet.err = "DifferentDimensions"
            ELSE /\ hRet.err = "none"
                 /\ (dot = R(0) /\ hs[1].b # R(0)) => hRet.val.inf
                 /\ dot # R(0) =>
                       /\ ~hRet.val.inf
                       /\ RLe(R(0), hRet.val.num)
                       /\ RLe(q, hRet.val.num)
                       /\ hRet.val.num \in {R(0), q}

(***************************************************************************)
(* Point: specification.  Each step is one call p.ratioDistance(q) or      *)
(* q.dominates(p, eps) on two points.                                      *)
(***************************************************************************)
\* The points of the calls are the first NumPointInputs of these.
PointPool ==
    << <<1, 1>>, <<1, 2>>, <<2, 1>>, <<2, 2>>, <<1, 3>>, <<3, 1>>, <<2, 3>>,
       <<3, 2>>, <<1, 1, 1>>, <<1, 2, 4>>, <<3, 3>>, <<2, 1, 1>> >>

PointInputs == {ToRat(PointPool[k]) : k \in 1..NumPointInputs}

EpsInputs == {R(0), Rat(1, 2), R(1), R(2), R(-1)}

\* p.ratioDistance(q)
CallPointRatioDistance ==
    /\ \E p, q \in PointInputs :
          LET r == PointRatioDistance(p, q)
          IN  pointCall' = [op |-> "ratioDistance", p |-> p, q |-> q,
                            eps |-> R(0), err |-> r.err, val |-> r.val]
    /\ UNCHANGED <<FacetVars, NdsVars, DriverVars, HyperplaneVars, AStarVars>>

\* q.dominates(p, eps)
CallPointDominates ==
    /\ \E p, q \in PointInputs : \E e \in EpsInputs :
          LET r == PointDominates(q, p, e)
          IN  pointCall' = [op |-> "dominates", p |-> p, q |-> q,
                            eps |-> e, err |-> r.err, val |-> r.val]
    /\ UNCHANGED <<FacetVars, NdsVars, DriverVars, HyperplaneVars, AStarVars>>

PointNext ==
    \/ CallPointRatioDistance
    \/ CallPointDominates

InitPoint ==
    PointIdle /\ FacetIdle /\ NdsIdle /\ DriverIdle /\ HyperplaneIdle /\ AStarIdle

SpecPoint == InitPoint /\ [][PointNext]_vars

\* the epsilons >= 0 of the model
NonNegativeEps == {e \in EpsInputs : RLe(R(0), e)}

\* C25: for strictly positive p, q of one dimension and every eps >= 0,
\* p.ratioDistance(q) <= eps iff q.dominates(p, eps); the ratio distance
\* is max(0, max_i (q_i - p_i) / p_i), itself an eps >= 0 for which q
\* eps-covers p; p.ratioDistance(p) = 0 and p.dominates(p, 0) holds.
RatioDistanceIsLeastCoveringEps ==
    LET p == pointCall.p
        q == pointCall.q
    IN  /\ (pointCall.op = "ratioDistance" /\ Len(p) = Len(q)) =>
              /\ pointCall.err = "none"
              /\ RLe(R(0), pointCall.val)
              /\ \A i \in 1..Len(p) :
                    RLe(RDiv(RSub(q[i], p[i]), p[i]), pointCall.val)
              /\ \/ pointCall.val = R(0)
                 \/ \E i \in 1..Len(p) :
                       pointCall.val = RDiv(RSub(q[i], p[i]), p[i])
              /\ \A e \in NonNegativeEps :
                    RLe(pointCall.val, e) <=>
                        PointDominates(q, p, e) = [err |-> "none", val |-> TRUE]
              /\ PointDominates(q, p, pointCall.val) =
                    [err |-> "none", val |-> TRUE]
              /\ p = q => pointCall.val = R(0)
        /\ (/\ pointCall.op = "dominates"
            /\ Len(p) = Len(q)
            /\ RLe(R(0), pointCall.eps)) =>
              /\ pointCall.err = "none"
              /\ pointCall.val <=>
                    RLe(PointRatioDistance(p, q).val, pointCall.eps)
              /\ (p = q /\ pointCall.eps = R(0)) => pointCall.val

\* C25 witness: a ratio distance that is not an integer has been returned,
\* for a q that is smaller than p in one coordinate.
RatioDistanceIsLeastCoveringEpsWitness ==
    /\ pointCall.op = "ratioDistance"
    /\ pointCall.err = "none"
    /\ pointCall.val[2] = 2
    /\ \E i \in 1..Len(pointCall.p) : RLt(pointCall.q[i], pointCall.p[i])

(***************************************************************************)
(* AStarDijkstra: runQuery on a graph whose nodes carry the attributes     *)
(* dist, fScore, pred, timestamp, inWhichList and heuristicValue.  Edge    *)
(* weights and heuristic values are non-negative integers.                 *)
(***************************************************************************)
\* std::numeric_limits<double>::infinity(): larger than every path weight
\* of the model
Infinity == 1000

Edge(v, w) == [target |-> v, weight |-> w]

\* The graphs: edges[u] is the edge list of node u; special is a heuristic
\* for one target that is admissible but not consistent.  The graphs of a
\* behaviour are the first NumGraphs of these.
GraphPool ==
    << [edges |-> << <<Edge(2, 2), Edge(3, 1)>>, <<Edge(4, 4)>>,
                     <<Edge(2, 0)>>, <<>> >>,
        special |-> [target |-> 4, h |-> <<0, 0, 3, 0>>]],
       [edges |-> << <<Edge(2, 0), Edge(3, 3)>>, <<Edge(1, 0), Edge(3, 2)>>,
                     <<Edge(4, 1)>>, <<Edge(4, 0)>> >>,
        special |-> [target |-> 4, h |-> <<1, 3, 0, 0>>]],
       [edges |-> << <<Edge(2, 1), Edge(3, 1)>>, <<Edge(1, 1), Edge(4, 3)>>,
                     <<Edge(1, 1), Edge(2, 0), Edge(4, 2)>>,
                     <<Edge(2, 3), Edge(3, 2)>> >>,
        special |-> [target |-> 4, h |-> <<0, 2, 0, 0>>]],
       [edges |-> << <<Edge(2, 1)>>, <<Edge(3, 1)>>, <<Edge(4, 1)>>,
                     <<Edge(1, 1)>> >>,
        special |-> [target |-> 1, h |-> <<0, 1, 0, 1>>]] >>

Nodes == 1..4

\* The queries: source, target and the heuristic the nodes carry.  The
\* queries of a behaviour are the first NumQueries of these.
QueryPool ==
    << [source |-> 1, target |-> 4, heuristic |-> "special"],
       [source |-> 4, target |-> 1, heuristic |-> "blind"],
       [source |-> 1, target |-> 4, heuristic |-> "blind"],
       [source |-> 2, target |-> 3, heuristic |-> "exact"],
       [source |-> 3, target |-> 3, heuristic |-> "blind"],
       [source |-> 1, target |-> 4, heuristic |-> "exact"],
       [source |-> 2, target |-> 1, heuristic |-> "exact"],
       [source |-> 3, target |-> 1, heuristic |-> "blind"] >>

Min(S) == CHOOSE x \in S : \A y \in S : x <= y

\* The weight of a lightest path from u to t with at most k edges
\* (Infinity if there is none).
RECURSIVE DistWithin(_, _, _, _)
DistWithin(g, u, t, k) ==
    IF u = t THEN 0
    ELSE IF k = 0 THEN Infinity
    ELSE Min({Infinity} \cup
             {LET rest == DistWithin(g, g.edges[u][i].target, t, k - 1)
              IN  IF rest = Infinity THEN Infinity
                  ELSE g.edges[u][i].weight + rest :
                 i \in 1..Len(g.edges[u])})

\* The minimum total weight over all paths from u to t.
TrueDist(g, u, t) == DistWithin(g, u, t, Cardinality(Nodes) - 1)

\* Node::heuristicValue of every node for a query with target t
HeuristicValues(g, t, heuristic) ==
    IF heuristic = "exact"
    THEN [n \in Nodes |-> IF TrueDist(g, n, t) = Infinity THEN 0
                          ELSE TrueDist(g, n, t)]
    ELSE IF heuristic = "special" /\ g.special.target = t
    THEN g.special.h
    ELSE [n \in Nodes |-> 0]

\* Node::Node()
DefaultNode ==
    [inWhichList |-> "NO_LIST", pred |-> 0, dist |-> Infinity,
     fScore |-> Infinity, timestamp |-> 0, heuristicValue |-> 0]

\* The body of the loop over the edges of u without the branch that
\* reopens a node of the CLOSED list.
RelaxEdgeNoReopening(st, u, e, ts) ==
    LET v == e.target
        tempFScore == st.node[u].dist + e.weight + st.node[v].heuristicValue
        better == [st.node EXCEPT ![v].pred = u,
                                  ![v].dist = st.node[u].dist + e.weight,
                                  ![v].fScore = tempFScore]
    IN  IF st.node[v].timestamp < ts
        THEN [node |-> [better EXCEPT ![v].timestamp = ts,
                                      ![v].inWhichList = "OPEN_LIST"],
              open |-> st.open \cup {v}]
        ELSE IF st.node[v].inWhichList = "OPEN_LIST" /\ tempFScore < st.node[v].fScore
        THEN [node |-> better, open |-> st.open]
        ELSE st

\* The body of the loop over the edges of u, for the edge e.
RelaxEdge(st, u, e, ts) ==
    LET v == e.target
        tempFScore == st.node[u].dist + e.weight + st.node[v].heuristicValue
        better == [st.node EXCEPT ![v].pred = u,
                                  ![v].dist = st.node[u].dist + e.weight,
                                  ![v].fScore = tempFScore]
    IN  IF st.node[v].timestamp < ts
        THEN [node |-> [better EXCEPT ![v].timestamp = ts,
                                      ![v].inWhichList = "OPEN_LIST"],
              open |-> st.open \cup {v}]
        ELSE IF st.node[v].inWhichList = "OPEN_LIST" /\ tempFScore < st.node[v].fScore
        THEN [node |-> better, open |-> st.open]
        ELSE IF st.node[v].inWhichList = "CLOSED_LIST" /\ tempFScore < st.node[v].fScore
        THEN [node |-> [better EXCEPT ![v].inWhichList = "OPEN_LIST"],
              open |-> st.open \cup {v}]
        ELSE st

\* for each successor of u, in the order of u's edge list
RECURSIVE RelaxEdges(_, _, _, _)
RelaxEdges(st, u, es, ts) ==
    IF es = <<>> THEN st
    ELSE RelaxEdges(RelaxEdge(st, u, Head(es), ts), u, Tail(es), ts)

\* runQuery up to the loop: the timestamp is incremented, the source is
\* initialized and put in the OPEN list.  (The caller has set the nodes'
\* heuristic values for the target.)
RunQueryStart ==
    /\ astarPc \in {"idle", "returned"}
    /\ query.count < MaxQueries
    /\ \E k \in 1..NumQueries :
          LET q == QueryPool[k]
              h == HeuristicValues(graph, q.target, q.heuristic)
              withH == [n \in Nodes |-> [node[n] EXCEPT !.heuristicValue = h[n]]]
          IN  /\ node' = [withH EXCEPT ![q.source].dist = 0,
                                       ![q.source].timestamp = timestamp + 1,
                                       ![q.source].pred = 0,
                                       ![q.source].fScore = h[q.source],
                                       ![q.source].inWhichList = "OPEN_LIST"]
              /\ openNodesQueue' = {q.source}
              /\ query' = [source |-> q.source, target |-> q.target,
                           ret |-> query.ret, count |-> query.count + 1]
    /\ timestamp' = timestamp + 1
    /\ astarPc' = "loop"
    /\ UNCHANGED <<graph, FacetVars, NdsVars, DriverVars, HyperplaneVars, PointVars>>

\* One pass of the while loop: a node of minimum fScore leaves the OPEN
\* list for the CLOSED list; the target ends the loop (and runQuery
\* returns target->dist), any other node has its edges relaxed.
RunQueryIteration ==
    /\ astarPc = "loop"
    /\ \E u \in openNodesQueue :
          /\ \A x \in openNodesQueue : node[u].fScore <= node[x].fScore
          /\ LET closed == [node EXCEPT ![u].inWhichList = "CLOSED_LIST"]
                 st == RelaxEdges([node |-> closed, open |-> openNodesQueue \ {u}],
                                  u, graph.edges[u], timestamp)
             IN  IF u = query.target
                 THEN /\ node' = closed
                      /\ openNodesQueue' = openNodesQueue \ {u}
                      /\ astarPc' = "returned"
                      /\ query' = [query EXCEPT !.ret = closed[u].dist]
                 ELSE /\ node' = st.node
                      /\ openNodesQueue' = st.open
                      /\ astarPc' = "loop"
                      /\ UNCHANGED query
    /\ UNCHANGED <<graph, timestamp, FacetVars, NdsVars, DriverVars, HyperplaneVars, PointVars>>

\* The OPEN list is empty: the loop ends and runQuery returns target->dist.
RunQueryReturn ==
    /\ astarPc = "loop"
    /\ openNodesQueue = {}
    /\ astarPc' = "returned"
    /\ query' = [query EXCEPT !.ret = node[query.target].dist]
    /\ UNCHANGED <<graph, timestamp, node, openNodesQueue, FacetVars, NdsVars,
                   DriverVars, HyperplaneVars, PointVars>>

\* cleanRelevantNodeAttributes: every node gets the algorithm's timestamp
\* and default values (the heuristic values are not touched).
CleanRelevantNodeAttributes ==
    /\ astarPc = "returned"
    /\ node' = [n \in Nodes |->
                  [DefaultNode EXCEPT !.timestamp = timestamp,
                                      !.heuristicValue = node[n].heuristicValue]]
    /\ astarPc' = "idle"
    /\ UNCHANGED <<graph, timestamp, openNodesQueue, query, FacetVars, NdsVars,
                   DriverVars, HyperplaneVars, PointVars>>

AStarNext ==
    \/ RunQueryStart
    \/ RunQueryIteration
    \/ RunQueryReturn
    \/ CleanRelevantNodeAttributes

InitAStar ==
    /\ graph \in {GraphPool[k] : k \in 1..NumGraphs}
    /\ timestamp = 0
    /\ node = [n \in Nodes |-> DefaultNode]
    /\ openNodesQueue = {}
    /\ astarPc = "idle"
    /\ query = NoQuery
    /\ FacetIdle /\ NdsIdle /\ DriverIdle /\ HyperplaneIdle /\ PointIdle

SpecAStar == InitAStar /\ [][AStarNext]_vars

\* runQuery is sequential code: once called it runs on.
RunQueryStep == RunQueryIteration \/ RunQueryReturn

SpecAStarFair == SpecAStar /\ WF_AStarVars(RunQueryStep)

\* The heuristic values of the nodes never overestimate the distance to
\* the target of the query.
AdmissibleHeuristic ==
    \A n \in Nodes : node[n].heuristicValue <= TrueDist(graph, n, query.target)

\* C27: with non-negative weights and a heuristic that never overestimates,
\* runQuery(source, target) with the target reachable returns the minimum
\* total weight of a source-target path, also when a CLOSED node is
\* reopened, and it terminates.
RunQueryReturnsShortest ==
    /\ []((/\ astarPc = "returned"
           /\ AdmissibleHeuristic
           /\ TrueDist(graph, query.source, query.target) < Infinity) =>
              query.ret = TrueDist(graph, query.source, query.target))
    /\ (astarPc = "loop") ~> (astarPc = "returned")

\* C27 witness: a query has returned the target's distance after a node
\* that was in the CLOSED list with a larger dist was opened again: the
\* node is CLOSED, and its dist is smaller than the weight of the edge
\* from the source that first reached it.
RunQueryReturnsShortestWitness ==
    /\ astarPc = "returned"
    /\ query.source = 1
    /\ query.target = 4
    /\ query.ret = 5
    /\ node[3].heuristicValue = 3
    /\ node[2].inWhichList = "CLOSED_LIST"
    /\ node[2].pred = 3
    /\ node[2].dist = 1

\* C28: whenever a call returns, the target's dist was initialised during
\* that call (the target's timestamp is the algorithm's timestamp), and
\* every node's timestamp is <= the algorithm's timestamp at every step.
ReturnedDistIsOfThisQuery ==
    /\ astarPc = "returned" => node[query.target].timestamp = timestamp
    /\ \A n \in Nodes : node[n].timestamp <= timestamp

(***************************************************************************)
(* The oracle (comb) of the model problems: the lexicographically smallest *)
(* feasible point among those minimizing w . p.                            *)
(***************************************************************************)
Comb(F, w) ==
    LET best == {p \in F : \A q \in F : RLe(Dot(w, p), Dot(w, q))}
    IN  PointAndSolution(CHOOSE p \in best : \A q \in best : p = q \/ LexLess(p, q), w)

AxisWeights(d, i) == Tuple([k \in 1..d |-> IF k = i THEN R(1) ELSE R(0)])

(***************************************************************************)
(* BaseProblem<S>::computeApproximateParetoSet(d, eps), d = 2.             *)
(*                                                                         *)
(* approx holds the points of the accepted PointAndSolutions; the weights  *)
(* that produced a point travel with the facet vertices.                   *)
(***************************************************************************)
MeanWeights(vertices) ==
    ComputeMeanVertexWeights([NoFacet EXCEPT !.spaceDimension = Len(vertices),
                                             !.vertices = vertices])

\* A facet of the driver: the supplied-normal constructor with the mean
\* weight vector of the vertices.
NewFacet(vertices) == FacetSuppliedNormal(vertices, MeanWeights(vertices))

\* The non-boundary facets among the construction results enter the
\* queue, in order; a constructor that threw InfiniteRatioDistance gives
\* no queue entry.
RECURSIVE Enqueue(_, _, _)
Enqueue(q, st, results) ==
    IF results = <<>> THEN q
    ELSE LET r == Head(results)
         IN  IF r.err = "none" /\ ~r.facet.isBoundaryFacet
             THEN Enqueue(Append(q, [facet |-> r.facet, stamp |-> st + 1]),
                          st + 1, Tail(results))
             ELSE Enqueue(q, st, Tail(results))

BoundaryResults(results) ==
    {results[k].facet : k \in {j \in 1..Len(results) :
        results[j].err = "none" /\ results[j].facet.isBoundaryFacet}}

RECURSIVE InsertAll(_, _)
InsertAll(S, points) ==
    IF points = <<>> THEN S
    ELSE InsertAll(NdsInsertContents(S, Head(points)), Tail(points))

BoundOf(entry) == entry.facet.localApproximationErrorUpperBound

\* a queue that serves the newest of the facets of largest bound
PopIndexNewestFirst(q) ==
    CHOOSE i \in 1..Len(q) : \A j \in 1..Len(q) :
        \/ RLt(BoundOf(q[j]), BoundOf(q[i]))
        \/ BoundOf(q[j]) = BoundOf(q[i]) /\ q[i].stamp >= q[j].stamp

\* The top of the priority queue: largest bound, oldest first among equals.
PopIndex(q) ==
    CHOOSE i \in 1..Len(q) : \A j \in 1..Len(q) :
        \/ RLt(BoundOf(q[j]), BoundOf(q[i]))
        \/ BoundOf(q[j]) = BoundOf(q[i]) /\ q[i].stamp <= q[j].stamp

TopBound(q) == BoundOf(q[PopIndex(q)])

\* a refinement step that leaves a finalized facet in the queue
RefineStepKeepsFinalized(F, S, q, fin, st) ==
    LET i == PopIndex(q)
        e == q[i]
        f == e.facet
        d == f.spaceDimension
        rest == DropAt(q, i)
        w == ComputeMeanVertexWeights(f)
        finalize == [approx |-> S, queue |-> q, finalized |-> fin \cup {f},
                     stamp |-> st, popped |-> e]
    IN  IF \E k \in 1..d : ~RGt(w[k], R(0)) THEN finalize
        ELSE LET qq == Comb(F, w)
             IN  IF \E k \in 1..d : f.vertices[k].point = qq.point THEN finalize
                 ELSE IF ~NdsInsertReturn(S, qq.point) THEN finalize
                 ELSE LET results == Tuple([k \in 1..d |->
                                  NewFacet([f.vertices EXCEPT ![k] = qq])])
                          newq == Enqueue(Tuple(rest), st, results)
                      IN  [approx |-> NdsInsertContents(S, qq.point),
                           queue |-> newq,
                           finalized |-> fin \cup BoundaryResults(results),
                           stamp |-> st + (Len(newq) - Len(rest)),
                           popped |-> e]

\* One pass of the refinement loop (Phase 3, steps 1-7).
RefineStep(F, S, q, fin, st) ==
    LET i == PopIndex(q)
        e == q[i]
        f == e.facet
        d == f.spaceDimension
        rest == DropAt(q, i)
        w == ComputeMeanVertexWeights(f)
        finalize == [approx |-> S, queue |-> Tuple(rest), finalized |-> fin \cup {f},
                     stamp |-> st, popped |-> e]
    IN  IF \E k \in 1..d : ~RGt(w[k], R(0)) THEN finalize
        ELSE LET qq == Comb(F, w)
             IN  IF \E k \in 1..d : f.vertices[k].point = qq.point THEN finalize
                 ELSE IF ~NdsInsertReturn(S, qq.point) THEN finalize
                 ELSE LET results == Tuple([k \in 1..d |->
                                  NewFacet([f.vertices EXCEPT ![k] = qq])])
                          newq == Enqueue(Tuple(rest), st, results)
                      IN  [approx |-> NdsInsertContents(S, qq.point),
                           queue |-> newq,
                           finalized |-> fin \cup BoundaryResults(results),
                           stamp |-> st + (Len(newq) - Len(rest)),
                           popped |-> e]

(***************************************************************************)
(* The driver: inputs and specification.                                   *)
(***************************************************************************)
FeasiblePool == << <<1, 5>>, <<2, 3>>, <<5, 1>>, <<3, 9>>, <<9, 3>>, <<4, 4>>,
                   <<1, 3>>, <<2, 2>>, <<4, 1>>, <<3, 3>>, <<2, 6>>, <<6, 2>>,
                   <<1, 1>>, <<5, 5>> >>

FeasiblePoints == {ToRat(FeasiblePool[k]) : k \in 1..NumFeasiblePoints}

FeasibleSets ==
    {F \in SUBSET FeasiblePoints : F # {} /\ Cardinality(F) <= MaxFeasible}

EpsValues == {R(0), R(1)}

DriverInit ==
    /\ feasible \in FeasibleSets
    /\ eps \in EpsValues
    /\ pc = "seed"
    /\ approx = {}
    /\ queue = <<>>
    /\ finalized = {}
    /\ stamp = 0
    /\ iter = 0
    /\ lastPopped = NoEntry

\* Phases 1 and 2: the d axis-aligned oracle calls and the initial facet.
DriverSeed ==
    /\ pc = "seed"
    /\ LET d == Len(CHOOSE p \in feasible : TRUE)
           seeds == Tuple([i \in 1..d |-> Comb(feasible, AxisWeights(d, i))])
           points == Tuple([i \in 1..d |-> seeds[i].point])
           r == NewFacet(seeds)
           newq == Enqueue(<<>>, 0, <<r>>)
       IN  /\ approx' = InsertAll({}, points)
           /\ IF Cardinality({points[i] : i \in 1..d}) < d
              THEN /\ pc' = "done"
                   /\ UNCHANGED <<queue, finalized, stamp>>
              ELSE /\ pc' = "loop"
                   /\ queue' = newq
                   /\ finalized' = BoundaryResults(<<r>>)
                   /\ stamp' = Len(newq)
    /\ UNCHANGED <<feasible, eps, iter, lastPopped, FacetVars, NdsVars, HyperplaneVars, PointVars, AStarVars>>

\* Phase 3: one pass of the loop body.
DriverRefine ==
    /\ pc = "loop"
    /\ queue # <<>>
    /\ RGt(TopBound(queue), eps)
    /\ iter < MaxIter
    /\ LET r == RefineStep(feasible, approx, queue, finalized, stamp)
       IN  /\ approx' = r.approx
           /\ queue' = r.queue
           /\ finalized' = r.finalized
           /\ stamp' = r.stamp
           /\ lastPopped' = r.popped
    /\ iter' = iter + 1
    /\ UNCHANGED <<feasible, eps, pc, FacetVars, NdsVars, HyperplaneVars, PointVars, AStarVars>>

\* Phase 4: the loop condition fails; approx is returned.
DriverFinish ==
    /\ pc = "loop"
    /\ IF queue = <<>> THEN TRUE ELSE ~RGt(TopBound(queue), eps)
    /\ pc' = "done"
    /\ UNCHANGED <<feasible, eps, approx, queue, finalized, stamp, iter,
                   lastPopped, FacetVars, NdsVars, HyperplaneVars, PointVars, AStarVars>>

DriverNext ==
    \/ DriverSeed
    \/ DriverRefine
    \/ DriverFinish

InitDriver == DriverInit /\ FacetIdle /\ NdsIdle /\ HyperplaneIdle /\ PointIdle /\ AStarIdle

SpecDriver == InitDriver /\ [][DriverNext]_vars

\* The driver can take a step: it has not seeded yet, or it is at the
\* loop condition (which either fails, or holds with a pass to run).
DriverEnabled ==
    \/ pc = "seed"
    \/ /\ pc = "loop"
       /\ IF queue = <<>> THEN TRUE
          ELSE ~RGt(TopBound(queue), eps) \/ iter < MaxIter

\* A step of the driver seen through pc and iter: every step of DriverNext
\* changes one of the two, and only steps of DriverNext do.
DriverProgress ==
    /\ DriverEnabled
    /\ pc' \in {"loop", "done"}
    /\ iter' \in 0..MaxIter

\* The driver is sequential code: a step that can be taken is taken.
SpecDriverFair == SpecDriver /\ WF_<<pc, iter>>(DriverProgress)


(***************************************************************************)
(* Properties of the driver.                                               *)
(***************************************************************************)
OracleWeights == {ToRat(w) : w \in ([1..2 -> 0..2] \ {<<0, 0>>})}

\* C1: the returned set eps-covers every point the oracle returns: for
\* every non-negative weight vector w some returned p has
\* p.dominates(q, eps), q the oracle's point for w.
ApproxCoversOraclePoints ==
    pc = "done" =>
        \A w \in OracleWeights :
            \E p \in approx : Dominates(p, Comb(feasible, w).point, eps)

\* C6: with eps = 0 the driver returns.
DriverTerminates == (pc = "seed" /\ eps = R(0)) ~> (pc = "done")

\* C6 witness: a run with eps = 0 has returned after three passes of the
\* loop.
DriverTerminatesWitness == pc = "done" /\ eps = R(0) /\ iter >= 3

\* C7: for the feasible set {(1,5), (2,3), (5,1)} and eps = 1 no step
\* inserts (2,3) and the driver returns exactly {(1,5), (5,1)}.
SeedsSufficeForEpsOne ==
    (feasible = {ToRat(<<1, 5>>), ToRat(<<2, 3>>), ToRat(<<5, 1>>)} /\ eps = R(1)) =>
        /\ ToRat(<<2, 3>>) \notin approx
        /\ pc = "done" => approx = {ToRat(<<1, 5>>), ToRat(<<5, 1>>)}

\* C8: only non-boundary facets are in the queue; the facet a pass pops
\* was in the queue, no queued facet has a larger bound, and no queued
\* facet of equal bound entered the queue before it (stamps are handed out
\* in the order of entry).
QueueServesLargestOldest ==
    /\ [](\A i \in 1..Len(queue) : ~queue[i].facet.isBoundaryFacet)
    /\ [][/\ \A i \in 1..Len(queue') :
                (\A j \in 1..Len(queue) : queue[j] # queue'[i]) =>
                    /\ queue'[i].stamp > stamp
                    /\ \A j \in 1..(i - 1) : queue'[j].stamp < queue'[i].stamp
          /\ iter' # iter =>
                /\ \E i \in 1..Len(queue) : queue[i] = lastPopped'
                /\ \A j \in 1..Len(queue) :
                      /\ RLe(BoundOf(queue[j]), BoundOf(lastPopped'))
                      /\ BoundOf(queue[j]) = BoundOf(lastPopped') =>
                            lastPopped'.stamp <= queue[j].stamp]_vars

\* C8 witness: the facet popped last left behind, in the queue, the facet
\* that entered right after it and has the same bound.
QueueTieWitness ==
    /\ lastPopped # NoEntry
    /\ \E i \in 1..Len(queue) :
          /\ BoundOf(queue[i]) = BoundOf(lastPopped)
          /\ queue[i].stamp = lastPopped.stamp + 1


====
